---- MODULE Spec2Model ----
(***************************************************************************)
(* A model of the culet gemstone ray tracer:                               *)
(*   - Bvh::new / update_node_bounds / subdivide   (culet/src/bvh.rs)      *)
(*   - Triangle, BoundingBox and Mesh hit tests    (culet_lib/src/mesh.rs) *)
(*   - RenderOptions::trace                        (culet_lib/src/render.rs)*)
(*   - RenderOptions::render_streaming, fresnel    (culet_lib/src/render.rs)*)
(*   - Camera                                      (culet_lib/src/camera.rs)*)
(*   - Scene::hit_point                            (src/scene.rs)          *)
(*   - CuletViewer::new / update                   (culet_viewer/src/main.rs)*)
(*                                                                         *)
(* Arithmetic is exact integer arithmetic.  Where the source divides       *)
(* (centroid / 3.0, 0.5 * extent, 1.0 / determinant) the model compares    *)
(* the cross-multiplied quantities, which on the integer inputs of the     *)
(* model orders them exactly as the source's f32 values are ordered.       *)
(***************************************************************************)
EXTENDS Integers, Sequences, FiniteSets, TLC

VARIABLES
    \* ---- Bvh (culet/src/bvh.rs)
    bpc,               \* position of Bvh::new: "new", "build", "done", "panic"
    indices,           \* Bvh.indices: 3 vertex indices per triangle
    triangle_indices,  \* Bvh.triangle_indices (0-based values, 1-based sequence)
    nodes,             \* Bvh.nodes (slot k of the source is nodes[k+1])
    node_count,        \* Bvh.node_count
    calls,             \* pending subdivide calls of the recursion, next call first
    \* ---- Mesh::hit_point (culet_lib/src/mesh.rs)
    hpc,               \* "idle", "query", "answered"
    mesh,              \* the Mesh: triangles and bounding_box
    ray,               \* the Ray of the query
    min_distance,      \* the min_distance of the query
    mesh_hit,          \* what Mesh::hit_point returned
    scan_hit,          \* what the scan over all triangles returned
    \* ---- RenderOptions::trace (culet_lib/src/render.rs)
    tpc,               \* "idle", "running", "returned", "panic"
    options,           \* the RenderOptions fields trace reads
    frames,            \* the call stack of trace, innermost call first
    ret,               \* the value a call has just returned to its caller, or NoValue
    last,              \* the trace call that ended last: what it hit, what it did
    \* ---- RenderOptions::render_streaming (culet_lib/src/render.rs)
    rpc,               \* "idle", "configured", "streaming", "panic"
    render,            \* the render: its options, chunks, worker tasks, flag, channel
    \* ---- CuletViewer (culet_viewer/src/main.rs)
    vpc,               \* "idle", "ui", "drain", "unreachable", "out_of_bounds"
    viewer,            \* render_options, frame_buffer, the render it holds, the tick's count
    renders,           \* every render started, in order; the last is the one held
    scenes,            \* the Scene values behind the Arc<Scene> pointers
    \* ---- fresnel (culet_lib/src/render.rs)
    fpc,               \* "idle", "call", "returned"
    fresnel_args,      \* incoming, normal, eta_i, eta_t
    fresnel_ret,       \* what fresnel returns
    \* ---- Scene::hit_point (src/scene.rs)
    qpc,               \* "idle", "query", "answered"
    query,             \* the scene's meshes, the ray and the minimum distance
    scene_hit,         \* what Scene::hit_point returns
    nearest_hit,       \* the nearest hit among all triangles of all meshes
    \* ---- Camera (culet_lib/src/camera.rs)
    cpc,               \* "idle", "none", "built", "panicked"
    camera,            \* the Camera value
    shuffles           \* the chunks of shuffled pixels of each render_streaming call made
                       \* on one RenderOptions value, when only the calls are followed

bvhVars == <<bpc, indices, triangle_indices, nodes, node_count, calls>>
hitVars == <<hpc, mesh, ray, min_distance, mesh_hit, scan_hit>>
traceVars == <<tpc, options, frames, ret, last>>
renderVars == <<rpc, render>>
shuffleVars == <<shuffles>>
cameraVars == <<cpc, camera>>
sceneVars == <<qpc, query, scene_hit, nearest_hit>>
viewerVars == <<vpc, viewer, renders, scenes>>
fresnelVars == <<fpc, fresnel_args, fresnel_ret>>
vars == <<bvhVars, hitVars, traceVars, renderVars, shuffleVars, cameraVars, sceneVars, viewerVars, fresnelVars>>
nonBvhVars == <<hitVars, traceVars, renderVars, shuffleVars, cameraVars, sceneVars, viewerVars, fresnelVars>>
nonHitVars == <<bvhVars, traceVars, renderVars, shuffleVars, cameraVars, sceneVars, viewerVars, fresnelVars>>
nonTraceVars == <<bvhVars, hitVars, renderVars, shuffleVars, cameraVars, sceneVars, viewerVars, fresnelVars>>
nonRenderVars == <<bvhVars, hitVars, traceVars, shuffleVars, cameraVars, sceneVars, viewerVars, fresnelVars>>
nonCameraVars == <<bvhVars, hitVars, traceVars, renderVars, shuffleVars, sceneVars, viewerVars, fresnelVars>>
nonSceneVars == <<bvhVars, hitVars, traceVars, renderVars, shuffleVars, cameraVars, viewerVars, fresnelVars>>
nonViewerVars == <<bvhVars, hitVars, traceVars, renderVars, shuffleVars, cameraVars, sceneVars, fresnelVars>>
nonFresnelVars == <<bvhVars, hitVars, traceVars, renderVars, shuffleVars, cameraVars, sceneVars, viewerVars>>

(***************************************************************************)
(* Generic helpers                                                         *)
(***************************************************************************)
Min2(a, b) == IF a <= b THEN a ELSE b
Max2(a, b) == IF a >= b THEN a ELSE b
Abs(a) == IF a < 0 THEN -a ELSE a

\* glam Vec3 as a triple; axis k of the source (0, 1, 2) is component k + 1
VMin(a, b) == [k \in 1..3 |-> Min2(a[k], b[k])]
VMax(a, b) == [k \in 1..3 |-> Max2(a[k], b[k])]
VSub(a, b) == [k \in 1..3 |-> a[k] - b[k]]
VAdd(a, b) == [k \in 1..3 |-> a[k] + b[k]]
Splat(c) == [k \in 1..3 |-> c]

\* a swap that only copies position j over position i
SwapCopy(s, i, j) == [s EXCEPT ![i + 1] = s[j + 1]]

\* slice.swap(i, j) on a 1-based sequence with 0-based positions i, j
Swap(s, i, j) == [s EXCEPT ![i + 1] = s[j + 1], ![j + 1] = s[i + 1]]

(***************************************************************************)
(* Bounds of the model                                                     *)
(***************************************************************************)
MaxTris == 4

(***************************************************************************)
(* Bvh: the mesh                                                           *)
(***************************************************************************)
\* The vertex buffer handed to Bvh::new (the Vec4 w component is unused).
vertices == << <<0, 0, 4>>, <<6, 0, 0>>, <<0, 7, 8>> >>

\* A triangle of the index buffer: three vertex indices.  Bounds and centroid
\* are symmetric in the corners, so corners are enumerated in sorted order.
TriShapes ==
    { t \in (0..(Len(vertices) - 1)) \X (0..(Len(vertices) - 1)) \X (0..(Len(vertices) - 1)) :
        t[1] <= t[2] /\ t[2] <= t[3] }

\* Index buffers of n triangles (indices.len() = 3n)
RECURSIVE Flatten(_)
Flatten(ts) == IF ts = <<>> THEN <<>> ELSE Head(ts) \o Flatten(Tail(ts))

IndexBuffers(max_tris) ==
    UNION { { Flatten(ts) : ts \in [1..n -> TriShapes] } : n \in 0..max_tris }

\* 1e30 of update_node_bounds: a value beyond every coordinate of the model
Huge == 1000000

\* BvhNode::default()
DefaultNode == [aabb_min |-> Splat(0), aabb_max |-> Splat(0),
                left_or_first |-> 0, triangle_count |-> 0]

\* n_tris = indices.len() / 3
NTris(idx) == Len(idx) \div 3

\* the three corners of triangle tri: vertices[indices[3 * tri + c]]
Corner(idx, tri, c) == vertices[idx[3 * tri + c + 1] + 1]

(***************************************************************************)
(* Bvh::update_node_bounds                                                 *)
(***************************************************************************)
\* a bounds loop that leaves out the third corner of every triangle
RECURSIVE BoundsLoopTwoCorners(_, _, _, _, _, _)
BoundsLoopTwoCorners(idx, ti, first, count, i, box) ==
    IF i >= count THEN box
    ELSE LET tri == ti[first + i + 1]
             v0 == Corner(idx, tri, 0)
             v1 == Corner(idx, tri, 1)
         IN BoundsLoopTwoCorners(idx, ti, first, count, i + 1,
                       [mn |-> VMin(VMin(box.mn, v0), v1),
                        mx |-> VMax(VMax(box.mx, v0), v1)])

RECURSIVE BoundsLoop(_, _, _, _, _, _)
BoundsLoop(idx, ti, first, count, i, box) ==
    IF i >= count THEN box
    ELSE LET tri == ti[first + i + 1]
             v0 == Corner(idx, tri, 0)
             v1 == Corner(idx, tri, 1)
             v2 == Corner(idx, tri, 2)
         IN BoundsLoop(idx, ti, first, count, i + 1,
                       [mn |-> VMin(VMin(VMin(box.mn, v0), v1), v2),
                        mx |-> VMax(VMax(VMax(box.mx, v0), v1), v2)])

update_node_bounds(ns, idx, ti, node_index) ==
    LET node == ns[node_index + 1]
        box == BoundsLoop(idx, ti, node.left_or_first, node.triangle_count, 0,
                          [mn |-> Splat(Huge), mx |-> Splat(-Huge)])
    IN [ns EXCEPT ![node_index + 1].aabb_min = box.mn,
                  ![node_index + 1].aabb_max = box.mx]

(***************************************************************************)
(* Bvh::subdivide: axis, split plane and the two-pointer partition         *)
(***************************************************************************)
Extent(node) == VSub(node.aabb_max, node.aabb_min)

\* axis of greatest extent, ties toward the lower axis (0-based as in the source)
SplitAxis(node) ==
    LET extent == Extent(node)
        a1 == IF extent[2] > extent[1] THEN 1 ELSE 0
    IN IF extent[3] > extent[a1 + 1] THEN 2 ELSE a1

\* 2 * split, split = aabb_min[axis] + 0.5 * extent[axis]
Split2(node, axis) == 2 * node.aabb_min[axis + 1] + Extent(node)[axis + 1]

\* 3 * centroid[axis], centroid = (v0 + v1 + v2) / 3.0
Centroid3(idx, tri, axis) ==
    VAdd(VAdd(Corner(idx, tri, 0), Corner(idx, tri, 1)), Corner(idx, tri, 2))[axis + 1]

\* a comparison that sends a centroid on the split value to the left
AtOrBelowSplit(idx, tri, node, axis) == 2 * Centroid3(idx, tri, axis) <= 3 * Split2(node, axis)

\* centroid[axis] < split
BelowSplit(idx, tri, node, axis) == 2 * Centroid3(idx, tri, axis) < 3 * Split2(node, axis)

\* The while loop i <= j.  j is a usize: j -= 1 at j = 0 overflows, which panics
\* in a debug build and in a release build wraps to usize::MAX, after which the
\* next swap(i, j) indexes out of bounds and panics.
RECURSIVE PartitionLoop(_, _, _, _, _, _)
PartitionLoop(idx, ti, node, axis, i, j) ==
    IF ~(i <= j) THEN [ti |-> ti, i |-> i, panic |-> FALSE]
    ELSE IF BelowSplit(idx, ti[i + 1], node, axis)
         THEN PartitionLoop(idx, ti, node, axis, i + 1, j)
         ELSE IF j = 0
              THEN [ti |-> Swap(ti, i, j), i |-> i, panic |-> TRUE]
              ELSE PartitionLoop(idx, Swap(ti, i, j), node, axis, i, j - 1)

Partition(idx, ti, node) ==
    PartitionLoop(idx, ti, node, SplitAxis(node),
                  node.left_or_first, node.left_or_first + node.triangle_count - 1)

(***************************************************************************)
(* Bvh::new and the subdivide recursion as a state machine                 *)
(***************************************************************************)
InitBvh ==
    /\ bpc = "new"
    /\ indices \in IndexBuffers(MaxTris)
    /\ triangle_indices = <<>>
    /\ nodes = <<>>
    /\ node_count = 0
    /\ calls = <<>>

\* no Bvh is being built
IdleBvh ==
    /\ bpc = "idle"
    /\ indices = <<>>
    /\ triangle_indices = <<>>
    /\ nodes = <<>>
    /\ node_count = 0
    /\ calls = <<>>

\* an allocation of one node per triangle
OneSlotPerTriangle(n_tris) == n_tris

\* vec![BvhNode::default(); 2 * n_tris + 1]
NodeSlots(n_tris) == 2 * n_tris + 1

\* a recursion that stops only at one triangle
StopsAtOne(triangle_count) == triangle_count <= 1

\* if node.triangle_count <= 2 { return; }
StopsDividing(triangle_count) == triangle_count <= 2

\* Bvh::new up to the call of subdivide(0)
BvhNew ==
    /\ bpc = "new"
    /\ LET n_tris == NTris(indices)
           ns0 == [k \in 1..NodeSlots(n_tris) |-> DefaultNode]
           ns1 == [ns0 EXCEPT ![1].triangle_count = n_tris]
           ti0 == [k \in 1..n_tris |-> k - 1]
       IN /\ triangle_indices' = ti0
          /\ nodes' = update_node_bounds(ns1, indices, ti0, 0)
    /\ node_count' = 1
    /\ calls' = <<0>>
    /\ bpc' = "build"
    /\ UNCHANGED <<indices, nonBvhVars>>

\* subdivide(node_index): stop dividing at leaf nodes
SubdivideLeaf ==
    /\ bpc = "build" /\ calls # <<>>
    /\ StopsDividing(nodes[Head(calls) + 1].triangle_count)
    /\ calls' = Tail(calls)
    /\ UNCHANGED <<bpc, indices, triangle_indices, nodes, node_count, nonBvhVars>>

\* subdivide(node_index): the partition scan fails
SubdividePanic ==
    /\ bpc = "build" /\ calls # <<>>
    /\ LET node == nodes[Head(calls) + 1]
       IN /\ ~StopsDividing(node.triangle_count)
          /\ LET p == Partition(indices, triangle_indices, node)
             IN /\ p.panic
                /\ triangle_indices' = p.ti
    /\ bpc' = "panic"
    /\ UNCHANGED <<indices, nodes, node_count, calls, nonBvhVars>>

\* subdivide(node_index): don't split if one side is empty
SubdivideNoSplit ==
    /\ bpc = "build" /\ calls # <<>>
    /\ LET node == nodes[Head(calls) + 1]
       IN /\ ~StopsDividing(node.triangle_count)
          /\ LET p == Partition(indices, triangle_indices, node)
                 left_count == p.i - node.left_or_first
             IN /\ ~p.panic
                /\ left_count = 0 \/ left_count = node.triangle_count
                /\ triangle_indices' = p.ti
    /\ calls' = Tail(calls)
    /\ UNCHANGED <<bpc, indices, nodes, node_count, nonBvhVars>>

\* the node writes of a split (lines 112-126)
SplitNodes(ns, idx, ti, node_index, nc, i) ==
    LET node == ns[node_index + 1]
        left_count == i - node.left_or_first
        left_child == nc
        right_child == nc + 1
        ns1 == [ns EXCEPT ![left_child + 1].left_or_first = node.left_or_first,
                          ![left_child + 1].triangle_count = left_count,
                          ![right_child + 1].left_or_first = i,
                          ![right_child + 1].triangle_count = node.triangle_count - left_count]
        ns2 == [ns1 EXCEPT ![node_index + 1].left_or_first = left_child,
                           ![node_index + 1].triangle_count = 0]
    IN update_node_bounds(update_node_bounds(ns2, idx, ti, left_child), idx, ti, right_child)

\* subdivide(node_index): split, then recurse into the left and the right child
SubdivideSplit ==
    /\ bpc = "build" /\ calls # <<>>
    /\ LET node_index == Head(calls)
           node == nodes[node_index + 1]
       IN /\ ~StopsDividing(node.triangle_count)
          /\ LET p == Partition(indices, triangle_indices, node)
                 left_count == p.i - node.left_or_first
             IN /\ ~p.panic
                /\ ~(left_count = 0 \/ left_count = node.triangle_count)
                /\ triangle_indices' = p.ti
                /\ nodes' = SplitNodes(nodes, indices, p.ti, node_index, node_count, p.i)
                /\ node_count' = node_count + 2
                /\ calls' = <<node_count, node_count + 1>> \o Tail(calls)
    /\ UNCHANGED <<bpc, indices, nonBvhVars>>

\* Bvh::new returns the tree
BvhReturn ==
    /\ bpc = "build" /\ calls = <<>>
    /\ bpc' = "done"
    /\ UNCHANGED <<indices, triangle_indices, nodes, node_count, calls, nonBvhVars>>

NextBvh == BvhNew \/ SubdivideLeaf \/ SubdividePanic \/ SubdivideNoSplit
           \/ SubdivideSplit \/ BvhReturn

(***************************************************************************)
(* Geometry (culet_lib/src/mesh.rs, culet_lib/src/ray.rs)                  *)
(*                                                                         *)
(* Ray::new normalizes its direction.  The model keeps the integer         *)
(* direction d it was made from; the ray's direction is d / |d|, so a      *)
(* ray parameter t of the source is |d| times the parameter along d.       *)
(* Barycentric u, v do not depend on the scale; distances are compared     *)
(* as fractions, against min_distance after squaring.                      *)
(***************************************************************************)
Dot(a, b) == a[1] * b[1] + a[2] * b[2] + a[3] * b[3]
Cross(a, b) == << a[2] * b[3] - a[3] * b[2],
                  a[3] * b[1] - a[1] * b[3],
                  a[1] * b[2] - a[2] * b[1] >>

\* Ray::new(origin, direction)
RayNew(origin, direction) ==
    [origin |-> origin, direction |-> direction, len2 |-> Dot(direction, direction)]

\* a quotient n / d with d # 0, as a fraction with a positive denominator
Frac(n, d) == IF d < 0 THEN [n |-> -n, d |-> -d] ELSE [n |-> n, d |-> d]
FracLt(a, b) == a.n * b.d < b.n * a.d
FracLe(a, b) == a.n * b.d <= b.n * a.d

\* t > min_distance, for the source's t = |direction| * f and min_distance >= 0
BeyondMin(f, len2, md) == f.n > 0 /\ f.n * f.n * len2 > md * md * f.d * f.d

NoHit == [hit |-> FALSE, ray_distance |-> Frac(0, 1), front_face |-> FALSE,
          material |-> "none"]

\* a hit test that also accepts hits at or before min_distance
TriangleHitAnyDistance(tri, r, md) ==
    LET edge01 == VSub(tri.points[2], tri.points[1])
        edge02 == VSub(tri.points[3], tri.points[1])
        pvec == Cross(r.direction, edge02)
        determinant == Dot(edge01, pvec)
        tvec == VSub(r.origin, tri.points[1])
        qvec == Cross(tvec, edge01)
    IN IF determinant = 0 THEN NoHit
       ELSE LET u == Frac(Dot(tvec, pvec), determinant)
                v == Frac(Dot(r.direction, qvec), determinant)
                t == Frac(Dot(edge02, qvec), determinant)
            IN IF ~(0 <= u.n /\ u.n <= u.d) THEN NoHit
               ELSE IF v.n < 0 \/ u.n + v.n > u.d THEN NoHit
               ELSE [hit |-> TRUE, ray_distance |-> t,
                     front_face |-> Dot(r.direction, Cross(edge01, edge02)) < 0,
                     material |-> tri.material]

\* Triangle::hit_point (Moeller-Trumbore).  On the integer inputs of the model
\* |determinant| < f32::EPSILON exactly when the determinant is 0.
TriangleHitPoint(tri, r, md) ==
    LET edge01 == VSub(tri.points[2], tri.points[1])
        edge02 == VSub(tri.points[3], tri.points[1])
        pvec == Cross(r.direction, edge02)
        determinant == Dot(edge01, pvec)
        tvec == VSub(r.origin, tri.points[1])
        qvec == Cross(tvec, edge01)
    IN IF determinant = 0 THEN NoHit
       ELSE LET u == Frac(Dot(tvec, pvec), determinant)
                v == Frac(Dot(r.direction, qvec), determinant)
                t == Frac(Dot(edge02, qvec), determinant)
            IN IF ~(0 <= u.n /\ u.n <= u.d) THEN NoHit
               ELSE IF v.n < 0 \/ u.n + v.n > u.d THEN NoHit
               ELSE IF BeyondMin(t, r.len2, md)
                    THEN [hit |-> TRUE, ray_distance |-> t,
                          \* normal = normalize(edge01 x edge02)
                          front_face |-> Dot(r.direction, Cross(edge01, edge02)) < 0,
                          material |-> tri.material]
                    ELSE NoHit

\* f32 values of the slab test: finite fractions, the infinities and NaN
Fin(n, d) == [k |-> "fin", n |-> Frac(n, d).n, d |-> Frac(n, d).d]
PInf == [k |-> "pinf", n |-> 0, d |-> 1]
NInf == [k |-> "ninf", n |-> 0, d |-> 1]
NaN == [k |-> "nan", n |-> 0, d |-> 1]

\* a <= b on f32 (false when either is NaN)
ExtLe(a, b) ==
    /\ a.k # "nan" /\ b.k # "nan"
    /\ \/ a.k = "ninf"
       \/ b.k = "pinf"
       \/ a.k = "fin" /\ b.k = "fin" /\ FracLe(a, b)

\* f32::max and f32::min: a NaN operand is ignored
ExtMax(a, b) == IF a.k = "nan" THEN b ELSE IF b.k = "nan" THEN a
                ELSE IF ExtLe(b, a) THEN a ELSE b
ExtMin(a, b) == IF a.k = "nan" THEN b ELSE IF b.k = "nan" THEN a
                ELSE IF ExtLe(a, b) THEN a ELSE b

\* (bound - origin) * inv_dir with inv_dir = 1.0 / direction[i]: a zero direction
\* component gives inv_dir = +inf, and 0 * inf is NaN.  delta and dir carry the
\* same positive scale factor.
SlabT(delta, dir) ==
    IF dir # 0 THEN Fin(delta, dir)
    ELSE IF delta > 0 THEN PInf ELSE IF delta < 0 THEN NInf ELSE NaN

\* The bounding box is kept in tenths: range.start = start / 10, range.end = end / 10.
BoxScale == 10

\* a slab loop that gives up only when the interval is inverted (max_t < min_t)
RECURSIVE SlabLoopNonStrict(_, _, _, _, _)
SlabLoopNonStrict(box, r, i, min_t, max_t) ==
    IF i > 3 THEN TRUE
    ELSE LET dir == BoxScale * r.direction[i]
             origin == BoxScale * r.origin[i]
             a == SlabT(box[i].start - origin, dir)
             b == SlabT(box[i].end - origin, dir)
             t0 == IF r.direction[i] < 0 THEN b ELSE a
             t1 == IF r.direction[i] < 0 THEN a ELSE b
             mn == ExtMax(min_t, t0)
             mx == ExtMin(max_t, t1)
         IN IF ExtLe(mx, mn) /\ ~ExtLe(mn, mx) THEN FALSE
            ELSE SlabLoopNonStrict(box, r, i + 1, mn, mx)

\* BoundingBox::hit_point, as used by hit_by: is there a hit
RECURSIVE SlabLoop(_, _, _, _, _)
SlabLoop(box, r, i, min_t, max_t) ==
    IF i > 3 THEN TRUE
    ELSE LET dir == BoxScale * r.direction[i]
             origin == BoxScale * r.origin[i]
             a == SlabT(box[i].start - origin, dir)
             b == SlabT(box[i].end - origin, dir)
             t0 == IF r.direction[i] < 0 THEN b ELSE a
             t1 == IF r.direction[i] < 0 THEN a ELSE b
             mn == ExtMax(min_t, t0)
             mx == ExtMin(max_t, t1)
         IN IF ExtLe(mx, mn) THEN FALSE
            ELSE SlabLoop(box, r, i + 1, mn, mx)

BoxHitBy(box, r) == SlabLoop(box, r, 1, NInf, PInf)

\* Triangle::translate
Translate(tri, vector) ==
    [tri EXCEPT !.points = [c \in 1..3 |-> VAdd(tri.points[c], vector)]]

SetMin(S) == CHOOSE x \in S : \A y \in S : x <= y
SetMax(S) == CHOOSE x \in S : \A y \in S : x >= y

\* Mesh::from_tris_with_material: translate, bound, set the material.  The box
\* of a mesh of at least one triangle; ranges of zero size are widened by 0.1.
MeshFromTris(origin, tris, material) ==
    LET moved == [k \in 1..Len(tris) |-> [Translate(tris[k], origin) EXCEPT !.material = material]]
        coord(a) == { moved[k].points[c][a] : k \in 1..Len(tris), c \in 1..3 }
    IN [origin |-> origin,
        triangles |-> moved,
        bounding_box |-> [a \in 1..3 |->
            [start |-> BoxScale * SetMin(coord(a)),
             end |-> Max2(BoxScale * SetMax(coord(a)), BoxScale * SetMin(coord(a)) + 1)]]]

\* the iterator chain of Mesh::hit_point: every triangle is tested, hits before
\* min_distance are dropped, min_by keeps the first of the nearest hits
RECURSIVE ScanFrom(_, _, _, _, _)
ScanFrom(tris, r, md, k, best) ==
    IF k > Len(tris) THEN best
    ELSE LET h == TriangleHitPoint(tris[k], r, md)
             better == h.hit /\ (~best.hit \/ FracLt(h.ray_distance, best.ray_distance))
         IN ScanFrom(tris, r, md, k + 1, IF better THEN h ELSE best)

LinearScan(m, r, md) == ScanFrom(m.triangles, r, md, 1, NoHit)

\* Mesh::hit_point
MeshHitPoint(m, r, md) ==
    IF BoxHitBy(m.bounding_box, r) THEN LinearScan(m, r, md) ELSE NoHit

(***************************************************************************)
(* Nearest-hit queries on one mesh                                         *)
(***************************************************************************)
\* corner positions of the triangles handed to Mesh::from_tris
MeshPoints == { <<0, 0, 0>>, <<1, 0, 0>>, <<0, 1, 0>>, <<0, 0, 1>> }
\* Triangle::new(p1, p2, p3) with Material::default(), over three distinct corners
MeshTriangles ==
    { [points |-> <<<<0, 0, 0>>, q, s>>, material |-> "Light"] :
        q, s \in MeshPoints \ {<<0, 0, 0>>} } \
    { [points |-> <<<<0, 0, 0>>, q, q>>, material |-> "Light"] : q \in MeshPoints }
MeshOrigins == { <<0, 0, 0>>, <<0, 0, -1>> }
MeshMaterials == {"Light"}
RayOrigins == { <<x, y, z>> : x, y, z \in {-1, 0, 1} }
RayDirections == { <<x, y, z>> : x, y, z \in {-1, 0, 1} } \ { <<0, 0, 0>> }
MinDistances == {0, 1}
MaxMeshTris == 2

Meshes ==
    { MeshFromTris(o, ts, mat) :
        o \in MeshOrigins, mat \in MeshMaterials,
        ts \in UNION { [1..n -> MeshTriangles] : n \in 1..MaxMeshTris } }

IdleHit ==
    /\ hpc = "idle"
    /\ mesh = <<>>
    /\ ray = <<>>
    /\ min_distance = 0
    /\ mesh_hit = NoHit
    /\ scan_hit = NoHit

InitHit ==
    /\ hpc = "query"
    /\ mesh \in Meshes
    /\ ray \in { RayNew(o, d) : o \in RayOrigins, d \in RayDirections }
    /\ min_distance \in MinDistances
    /\ mesh_hit = NoHit
    /\ scan_hit = NoHit

\* the query answered by Mesh::hit_point and by the scan over all triangles
HitQuery ==
    /\ hpc = "query"
    /\ mesh_hit' = MeshHitPoint(mesh, ray, min_distance)
    /\ scan_hit' = LinearScan(mesh, ray, min_distance)
    /\ hpc' = "answered"
    /\ UNCHANGED <<mesh, ray, min_distance, nonHitVars>>

NextHit == HitQuery


(***************************************************************************)
(* RenderOptions::trace (culet_lib/src/render.rs:185-280)                  *)
(*                                                                         *)
(* The scene answers each hit_point query of trace with one of the         *)
(* SceneAnswers: no hit, or the HitInfo fields trace reads, together with  *)
(* the two quantities trace derives from the ray and the normal alone      *)
(* (the Fresnel reflectance and the cosine to the camera direction).       *)
(* Colors are grey levels (one channel), counted in units of 1 / ColorDen, *)
(* which makes every product and quotient of trace exact.                  *)
(***************************************************************************)
MaxBounces == 2

ColorDen == 2 * (4 ^ MaxBounces)
Black == 0
NoValue == -1

LightingModels == {"Isometric", "Cosine"}

\* the RenderOptions a render is started with
OptionSets ==
    [max_bounces : 0..MaxBounces,
     lighting_model : LightingModels,
     light_intensity : {ColorDen},
     background_color : {3 * ColorDen},
     absorbing : BOOLEAN]

\* reflectance in halves: 0, 1/2 and 1 (total internal reflection)
Reflectances == {0, 1, 2}

NoInfo == [hit |-> FALSE, material |-> "none", color |-> Black, front_face |-> FALSE,
           normal_up |-> FALSE, reflection_ratio |-> 0, look_cos |-> 0,
           cos_over_one |-> FALSE]

\* the f32 product -direction . look_dir of a ray exactly against the camera
\* direction (look_cos = 2) is 1.0 for some pairs of normalised vectors and
\* 1.0000001 for others: look_dir normalize(-3, -3, 0) against the direction
\* normalize(3, 3, 0) gives 1.0000001
CosOverOne(look_cos) == IF look_cos = 2 THEN BOOLEAN ELSE {FALSE}

\* what Scene::hit_point and the ray can give one call of trace.  look_cos is
\* -direction . look_dir in halves, and cos_over_one says that its f32 value
\* is 1.0000001; normal_up is info.normal.z < 0 on a back face (the normal
\* turned against the ray points up).
SceneAnswers ==
    UNION { { [NoInfo EXCEPT !.look_cos = c, !.cos_over_one = o] : o \in CosOverOne(c) } :
              c \in {-1, 1, 2} }
    \cup { [NoInfo EXCEPT !.hit = TRUE, !.material = "Light", !.color = c] :
             c \in {Black, ColorDen} }
    \cup { [NoInfo EXCEPT !.hit = TRUE, !.material = "Diffuse", !.color = ColorDen] }
    \cup { a \in { [NoInfo EXCEPT !.hit = TRUE, !.material = "Refractive", !.color = ColorDen,
                                 !.front_face = f, !.normal_up = u, !.reflection_ratio = r] :
                      f \in BOOLEAN, u \in BOOLEAN, r \in Reflectances } :
             ~(a.front_face /\ a.normal_up) }

\* a call of trace: its max_bounces argument, where it stands, what it hit
Frame(budget) == [budget |-> budget, phase |-> "enter", info |-> NoInfo,
                  refraction_color |-> Black, made |-> 0]

NoCall == [budget |-> 0, info |-> NoInfo, outcome |-> "none", value |-> NoValue, made |-> 0]

\* a zero-budget test that never fires
NeverOutOfBounces(budget) == FALSE

\* if max_bounces == 0
OutOfBounces(budget) == budget = 0

\* info.material.color() * 0.0
ZeroedColor(color) == color * 0

\* exiting_pavilion = !info.front_face && normal.dot(vec3(0.0, 0.0, 1.0)) > 0.0
ExitingPavilion(info) == ~info.front_face /\ info.normal_up

\* a refraction test without the pavilion guard
RefractsBelowTotal(info) == info.reflection_ratio < 2

\* reflection_ratio < 1.0 && !exiting_pavilion
TracesRefraction(info) == info.reflection_ratio < 2 /\ ~ExitingPavilion(info)

\* subcolor, and Beer's law on a back face (a factor 1/2 when the gem absorbs,
\* exp(0) = 1 when its color is 0)
Combine(info, refraction_color, reflection_color, absorbing) ==
    LET subcolor == (info.reflection_ratio * reflection_color
                     + (2 - info.reflection_ratio) * refraction_color) \div 2
    IN IF ~info.front_face
       THEN IF absorbing THEN subcolor \div 2 ELSE subcolor
       ELSE subcolor

\* if max_bounces == self.max_bounces
IsPrimaryRay(opts, budget) == budget = opts.max_bounces

\* cos.acos().to_degrees() < 10.0: of the cosines of the scene answers only
\* 1.0 is within 10 degrees; acos(1.0000001) is NaN and NaN < 10.0 is false
InHeadShadow(cos, cos_over_one) == cos = 2 /\ ~cos_over_one

\* the None arm: background for the primary ray, the lighting model otherwise.
\* The cosine 1.0000001 counts as 1: its excess is below the unit of color.
MissColor(opts, budget, look_cos, cos_over_one) ==
    IF IsPrimaryRay(opts, budget)
    THEN opts.background_color
    ELSE IF opts.lighting_model = "Cosine"
         THEN LET cos0 == Max2(look_cos, 0)
                  \* add a head shadow directly above
                  cos == IF InHeadShadow(cos0, cos_over_one) THEN 0 ELSE cos0
              IN (opts.light_intensity * cos) \div 2
         ELSE IF look_cos >= 0 THEN opts.light_intensity ELSE Black

IdleTrace ==
    /\ tpc = "idle"
    /\ options = <<>>
    /\ frames = <<>>
    /\ ret = NoValue
    /\ last = NoCall

\* options.trace(&ray, options.max_bounces)
InitTrace ==
    /\ tpc = "running"
    /\ options \in OptionSets
    /\ frames = <<Frame(options.max_bounces)>>
    /\ ret = NoValue
    /\ last = NoCall

Entering == tpc = "running" /\ ret = NoValue /\ frames # <<>> /\ Head(frames).phase = "enter"

\* the innermost call returns value
Return(info, value) ==
    /\ ret' = value
    /\ last' = [budget |-> Head(frames).budget, info |-> info, outcome |-> "returned",
                value |-> value, made |-> Head(frames).made]
    /\ frames' = Tail(frames)
    /\ UNCHANGED <<tpc, options>>

\* hit_point gives None
TraceMiss ==
    /\ Entering
    /\ \E info \in SceneAnswers :
        /\ ~info.hit
        /\ Return(info, MissColor(options, Head(frames).budget, info.look_cos,
                               info.cos_over_one))
    /\ UNCHANGED nonTraceVars

\* a hit with max_bounces == 0
TraceOutOfBounces ==
    /\ Entering
    /\ OutOfBounces(Head(frames).budget)
    /\ \E info \in SceneAnswers :
        /\ info.hit
        /\ Return(info, ZeroedColor(info.color))
    /\ UNCHANGED nonTraceVars

\* Material::Light { color } => color
TraceLight ==
    /\ Entering
    /\ ~OutOfBounces(Head(frames).budget)
    /\ \E info \in SceneAnswers :
        /\ info.hit /\ info.material = "Light"
        /\ Return(info, info.color)
    /\ UNCHANGED nonTraceVars

\* Material::Diffuse { color: _ } => todo!()
TraceDiffuse ==
    /\ Entering
    /\ ~OutOfBounces(Head(frames).budget)
    /\ \E info \in SceneAnswers :
        /\ info.hit /\ info.material = "Diffuse"
        /\ last' = [budget |-> Head(frames).budget, info |-> info,
                    outcome |-> "unimplemented", value |-> NoValue, made |-> 0]
    /\ tpc' = "panic"
    /\ UNCHANGED <<options, frames, ret>>
    /\ UNCHANGED nonTraceVars

\* a recursive call that hands on the budget it received
SameBounces(max_bounces) == max_bounces

\* self.trace(&Ray::new(out_origin, out_direction), max_bounces - 1)
OneBounceLess(max_bounces) == max_bounces - 1

\* Material::Refractive: the first recursive call, for the refraction ray when
\* it is traced and for the reflection ray otherwise
TraceRefractive ==
    /\ Entering
    /\ ~OutOfBounces(Head(frames).budget)
    /\ \E info \in SceneAnswers :
        /\ info.hit /\ info.material = "Refractive"
        /\ LET f == Head(frames)
               g == [f EXCEPT !.info = info, !.made = 1,
                              !.phase = IF TracesRefraction(info) THEN "refr" ELSE "refl"]
           IN frames' = <<Frame(OneBounceLess(f.budget)), g>> \o Tail(frames)
    /\ UNCHANGED <<tpc, options, ret, last>>
    /\ UNCHANGED nonTraceVars

\* the refraction call has returned: trace the reflection ray
TraceReflection ==
    /\ tpc = "running" /\ ret # NoValue /\ frames # <<>>
    /\ Head(frames).phase = "refr"
    /\ LET f == Head(frames)
           g == [f EXCEPT !.refraction_color = ret, !.made = 2, !.phase = "refl"]
       IN frames' = <<Frame(OneBounceLess(f.budget)), g>> \o Tail(frames)
    /\ ret' = NoValue
    /\ UNCHANGED <<tpc, options, last>>
    /\ UNCHANGED nonTraceVars

\* the reflection call has returned: combine and return
TraceCombine ==
    /\ tpc = "running" /\ ret # NoValue /\ frames # <<>>
    /\ Head(frames).phase = "refl"
    /\ LET f == Head(frames)
       IN Return(f.info, Combine(f.info, f.refraction_color, ret, options.absorbing))
    /\ UNCHANGED nonTraceVars

\* the outermost call has returned to the renderer
TraceDone ==
    /\ tpc = "running" /\ ret # NoValue /\ frames = <<>>
    /\ tpc' = "returned"
    /\ UNCHANGED <<options, frames, ret, last>>
    /\ UNCHANGED nonTraceVars

NextTrace == TraceMiss \/ TraceOutOfBounces \/ TraceLight \/ TraceDiffuse
             \/ TraceRefractive \/ TraceReflection \/ TraceCombine \/ TraceDone

(***************************************************************************)
(* RenderOptions::render_streaming (culet_lib/src/render.rs:121-183)       *)
(*                                                                         *)
(* A render is a record: the options it was started with, the chunks of    *)
(* the shuffled pixel list, one worker task per chunk, the AbortSignal     *)
(* and the channel.  The rayon pool runs at most `threads` tasks at a      *)
(* time.  A task stands before the flag check of a sample ("check"),       *)
(* before the sample's trace call ("trace") or before tx.send ("send").    *)
(* A trace call that reaches todo!() panics inside the spawned closure;    *)
(* the pool is built without a panic handler, so the panic aborts the      *)
(* process and no task takes another step ("panic").                       *)
(***************************************************************************)
MaxSamples == 2
MaxThreads == 2

\* image_width, image_height of the renders of the model
ImageSizes == { <<1, 1>>, <<2, 1>>, <<3, 1>>, <<2, 2>> }

\* the scenes of the renders of the model, max_bounces being at least 1: a
\* gem alone, and a gem with a Diffuse triangle that fills pixel (0, 0)
RenderScenes == {"gem", "diffuse"}

RenderConfigs ==
    [image_width : { sz[1] : sz \in ImageSizes },
     image_height : { sz[2] : sz \in ImageSizes },
     samples_per_pixel : 1..MaxSamples,
     threads : 1..MaxThreads,
     scene : RenderScenes]

\* pixels.shuffle(&mut SmallRng::from_entropy()): any order of 0..n-1
Shuffles(n) == { p \in [1..n -> 0..(n - 1)] : \A a, b \in 1..n : p[a] = p[b] => a = b }

\* not what render_streaming does: a split into as many chunks as there are
\* threads, against which the split of the source is compared
RECURSIVE ChunksPerThread(_, _)
ChunksPerThread(pixels, threads) ==
    IF pixels = <<>> THEN <<>>
    ELSE LET n == (Len(pixels) + threads - 1) \div threads
             size == Min2(n, Len(pixels))
         IN <<SubSeq(pixels, 1, size)>>
            \o ChunksPerThread(SubSeq(pixels, size + 1, Len(pixels)), threads - 1)

\* slice.chunks(chunk_size): consecutive chunks of chunk_size elements, the last
\* one shorter when the length is no multiple of it
RECURSIVE Chunks(_, _)
Chunks(pixels, chunk_size) ==
    IF pixels = <<>> THEN <<>>
    ELSE LET size == Min2(chunk_size, Len(pixels))
         IN <<SubSeq(pixels, 1, size)>>
            \o Chunks(SubSeq(pixels, size + 1, Len(pixels)), chunk_size)

\* a worker task that has not been picked up by a pool thread
QueuedTask == [pc |-> "queued", k |-> 0, i |-> 0, pixel |-> 0, draws |-> 0,
               broke |-> FALSE, sampled_after_abort |-> 0, sent_after_abort |-> 0]

\* the jitter the task's SmallRng::seed_from_u64(0x123456789ABCDEF) gives with
\* its n-th pair of draws: a fixed sequence, the same in every task
JitterAt(n) == n % 2

\* Material::Diffuse { color: _ } => todo!(): the ray through pixel (x, y),
\* jittered or not, hits a Diffuse surface with bounces left
HitsDiffuse(opts, x, y) == opts.scene = "diffuse" /\ x = 0 /\ y = 0

\* what options.trace(&ray, options.max_bounces) returns, when it returns,
\* for the ray through pixel (x, y) moved by jitter: a fixed function, the
\* scene and camera being immutable
TraceColor(x, y, jitter) == (x + 2 * y + jitter) % 3

IdleRender ==
    /\ rpc = "idle"
    /\ render = <<>>
    /\ shuffles = <<>>

\* RenderOptions built and not yet rendered
InitRender ==
    /\ rpc = "configured"
    /\ \E cfg \in RenderConfigs :
        /\ <<cfg.image_width, cfg.image_height>> \in ImageSizes
        /\ render = [options |-> cfg, chunks |-> <<>>, tasks |-> <<>>,
                     aborted |-> FALSE, channel |-> <<>>, early_abort |-> FALSE]
    /\ shuffles = <<>>

\* the render of options r.options with the shuffled pixels split and one
\* task spawned per chunk
Spawned(r, pixels) ==
    LET chunks == Chunks(pixels, r.options.threads)
    IN [r EXCEPT !.chunks = chunks, !.tasks = [c \in 1..Len(chunks) |-> QueuedTask]]

\* render_streaming: shuffle, split, spawn one task per chunk, return (rx, abort_signal)
RenderStreaming ==
    /\ rpc = "configured"
    /\ \E pixels \in Shuffles(render.options.image_width * render.options.image_height) :
        render' = Spawned(render, pixels)
    /\ rpc' = "streaming"
    /\ UNCHANGED nonRenderVars

Running(r) == { t \in 1..Len(r.tasks) : r.tasks[t].pc \in {"check", "trace", "send"} }
AllDone(r) == \A t \in 1..Len(r.tasks) : r.tasks[t].pc = "done"
NoSampleYet(r) == \A t \in 1..Len(r.tasks) : r.tasks[t].pc = "queued" \/
                      (r.tasks[t].k = 0 /\ r.tasks[t].i = 0 /\ r.tasks[t].pc = "check")

\* where a task stands at the top of the loop over the samples of a pixel
LoopTop(r, task) ==
    IF r.options.samples_per_pixel > 0 THEN [task EXCEPT !.pc = "check", !.i = 0, !.pixel = 0]
    ELSE [task EXCEPT !.pc = "send", !.i = 0, !.pixel = 0]

\* a free pool thread picks up a spawned task of render r
Started(r, t) == [r EXCEPT !.tasks[t] = LoopTop(r, @)]

TaskStart(t) ==
    /\ rpc = "streaming"
    /\ t \in 1..Len(render.tasks)
    /\ render.tasks[t].pc = "queued"
    /\ Cardinality(Running(render)) < render.options.threads
    /\ render' = Started(render, t)
    /\ UNCHANGED <<rpc, nonRenderVars>>

\* a flag nobody can set
never_aborted(r) == FALSE

\* AbortSignal::is_aborted
is_aborted(r) == r.aborted

\* a reading of the flag that only leaves the loop over the samples
BreakSamples(task) == [task EXCEPT !.pc = "send", !.broke = TRUE]

\* break 'pixel
BreakPixel(task) == [task EXCEPT !.pc = "done", !.broke = TRUE]

\* if abort_signal.is_aborted() { break 'pixel; }
Checked(r, t) ==
    [r EXCEPT !.tasks[t] = IF is_aborted(r) THEN BreakPixel(@) ELSE [@ EXCEPT !.pc = "trace"]]

TaskCheck(t) ==
    /\ rpc = "streaming"
    /\ t \in 1..Len(render.tasks)
    /\ render.tasks[t].pc = "check"
    /\ render' = Checked(render, t)
    /\ UNCHANGED <<rpc, nonRenderVars>>

\* the pixel a task works on, and its coordinates
PixelOf(r, t) == r.chunks[t][r.tasks[t].k + 1]
PixelX(r, t) == PixelOf(r, t) % r.options.image_width
PixelY(r, t) == PixelOf(r, t) \div r.options.image_width

\* a jitter for every sample, the first included
JitterEverySample(task) == JitterAt(task.draws)

\* a jitter that follows the place of the pixel in its chunk
JitterByPlace(task) == JitterAt(task.k)

\* the jitter of the sample a task is about to take: none for sample 0
JitterOf(task) == IF task.i # 0 THEN JitterAt(task.draws) ELSE 0

\* one sample: the ray through the pixel, jittered when i != 0, traced (the
\* trace call returning color) and added
Traced(r, t, color) ==
    LET task == r.tasks[t]
        more == task.i + 1 < r.options.samples_per_pixel
    IN [r EXCEPT !.tasks[t] =
            [task EXCEPT !.pixel = task.pixel + color,
                         !.draws = IF task.i # 0 THEN task.draws + 1 ELSE task.draws,
                         !.i = task.i + 1,
                         !.pc = IF more THEN "check" ELSE "send",
                         !.sampled_after_abort = IF r.aborted THEN @ + 1 ELSE @]]

\* the trace call of a sample returns
TaskTrace(t) ==
    /\ rpc = "streaming"
    /\ t \in 1..Len(render.tasks)
    /\ render.tasks[t].pc = "trace"
    /\ ~HitsDiffuse(render.options, PixelX(render, t), PixelY(render, t))
    /\ render' = Traced(render, t, TraceColor(PixelX(render, t), PixelY(render, t),
                                              JitterOf(render.tasks[t])))
    /\ UNCHANGED <<rpc, nonRenderVars>>

\* the trace call of a sample has reached todo!()
Panicked(r, t) ==
    [r EXCEPT !.tasks[t] = [@ EXCEPT !.pc = "panic",
                                     !.sampled_after_abort = IF r.aborted THEN @ + 1 ELSE @]]

\* the trace call of a sample panics, and the process with it
TaskPanic(t) ==
    /\ rpc = "streaming"
    /\ t \in 1..Len(render.tasks)
    /\ render.tasks[t].pc = "trace"
    /\ HitsDiffuse(render.options, PixelX(render, t), PixelY(render, t))
    /\ render' = Panicked(render, t)
    /\ rpc' = "panic"
    /\ UNCHANGED nonRenderVars

\* RenderMsg::Abort
AbortMsg(r, t) == [kind |-> "Abort"]

\* RenderMsg::Pixel { x, y, color: pixel / samples_per_pixel }
PixelMsg(r, t) ==
    [kind |-> "Pixel", x |-> PixelX(r, t), y |-> PixelY(r, t),
     color |-> [n |-> r.tasks[t].pixel, d |-> r.options.samples_per_pixel]]

\* tx.send(RenderMsg::Pixel { .. }), then the next pixel of the chunk
Sent(r, t) ==
    LET task == r.tasks[t]
        sent == [task EXCEPT !.k = task.k + 1,
                             !.sent_after_abort = IF r.aborted THEN @ + 1 ELSE @]
    IN [r EXCEPT !.channel = Append(@, PixelMsg(r, t)),
                 !.tasks[t] = IF task.k + 1 < Len(r.chunks[t])
                              THEN LoopTop(r, sent)
                              ELSE [sent EXCEPT !.pc = "done"]]

TaskSend(t) ==
    /\ rpc = "streaming"
    /\ t \in 1..Len(render.tasks)
    /\ render.tasks[t].pc = "send"
    /\ render' = Sent(render, t)
    /\ UNCHANGED <<rpc, nonRenderVars>>

\* AbortSignal::abort
Aborted(r) == [r EXCEPT !.aborted = TRUE, !.early_abort = NoSampleYet(r)]

\* AbortSignal::abort by the holder of the signal render_streaming returned
Abort ==
    /\ rpc = "streaming"
    /\ ~render.aborted
    /\ render' = Aborted(render)
    /\ UNCHANGED <<rpc, nonRenderVars>>

TaskStep(t) == TaskStart(t) \/ TaskCheck(t) \/ TaskTrace(t) \/ TaskPanic(t) \/ TaskSend(t)

Workers == \E t \in 1..Len(render.tasks) : TaskStep(t)

NextRender == RenderStreaming \/ Abort \/ Workers

(***************************************************************************)
(* Repeated calls of render_streaming on one RenderOptions value, followed *)
(* only as far as the shuffle and the split (render.rs:122-139): the       *)
(* workers have no part in either.                                         *)
(***************************************************************************)
MaxCalls == 2

\* let mut rng = SmallRng::from_entropy(); pixels.shuffle(&mut rng);
\* pixels.chunks(self.threads)
ShuffleCall ==
    /\ rpc = "configured"
    /\ Len(shuffles) < MaxCalls
    /\ \E pixels \in Shuffles(render.options.image_width * render.options.image_height) :
        shuffles' = Append(shuffles, Chunks(pixels, render.options.threads))
    /\ UNCHANGED <<bvhVars, hitVars, traceVars, renderVars, cameraVars, sceneVars, viewerVars, fresnelVars>>

NextShuffle == ShuffleCall

(***************************************************************************)
(* Camera (culet_lib/src/camera.rs)                                        *)
(*                                                                         *)
(* Vectors have integer coordinates.  A normalized direction is kept as    *)
(* the shortest integer vector of that direction; lengths are compared by  *)
(* their squares.                                                          *)
(***************************************************************************)
RECURSIVE Gcd(_, _)
Gcd(a, b) == IF b = 0 THEN a ELSE Gcd(b, a % b)

\* Vec3::normalize of a vector that is not zero
Normalize(v) ==
    LET g == Gcd(Gcd(Abs(v[1]), Abs(v[2])), Abs(v[3]))
    IN << v[1] \div g, v[2] \div g, v[3] \div g >>

Len2(v) == Dot(v, v)

\* points and vectors handed to the constructors and builder methods
CameraPoints == { <<0, 0, 0>>, <<0, 2, 0>>, <<0, 0, -2>>, <<2, 0, 0>>, <<0, -2, 0>>, <<2, 2, 0>> }
CameraFovs == {12, 90}
CameraAspects == { Frac(16, 9), Frac(1, 1) }
CameraFocals == {1, 2}

NoCamera == [look_dir |-> <<0, 0, 0>>, up |-> <<0, 0, 0>>, position |-> <<0, 0, 0>>,
             fov_h |-> 0, aspect_ratio |-> Frac(0, 1), focal_length |-> 0]

IdleCamera ==
    /\ cpc = "idle"
    /\ camera = NoCamera

InitCamera ==
    /\ cpc = "none"
    /\ camera = NoCamera

\* Camera::default()
CameraDefault ==
    /\ cpc = "none"
    /\ camera' = [look_dir |-> <<0, 0, -1>>, up |-> <<0, 1, 0>>, position |-> <<0, 0, 0>>,
                  fov_h |-> 90, aspect_ratio |-> Frac(16, 9), focal_length |-> 1]
    /\ cpc' = "built"
    /\ UNCHANGED nonCameraVars

\* assert!(look_dir.cross(up).length() > f32::EPSILON): the cross product of
\* two integer vectors is zero or at least 1 long
NewAccepts(look_dir, up) == Len2(Cross(look_dir, up)) > 0

\* Camera::new
CameraNew ==
    /\ cpc = "none"
    /\ \E position \in CameraPoints, look_dir \in CameraPoints, up \in CameraPoints,
          fov_h \in CameraFovs, aspect_ratio \in CameraAspects, focal_length \in CameraFocals :
        IF NewAccepts(look_dir, up)
        THEN /\ camera' = [look_dir |-> Normalize(look_dir), up |-> Normalize(up),
                           position |-> position, fov_h |-> fov_h,
                           aspect_ratio |-> aspect_ratio, focal_length |-> focal_length]
             /\ cpc' = "built"
        ELSE /\ cpc' = "panicked"
             /\ UNCHANGED camera
    /\ UNCHANGED nonCameraVars

\* Camera::position
CameraPosition ==
    /\ cpc = "built"
    /\ \E position \in CameraPoints : camera' = [camera EXCEPT !.position = position]
    /\ UNCHANGED <<cpc, nonCameraVars>>

\* assert!(self.look_dir.length() > self.focal_length)
LookAtAccepts(look_dir, focal_length) == Len2(look_dir) > focal_length * focal_length

\* Camera::look_at
CameraLookAt ==
    /\ cpc = "built"
    /\ \E point \in CameraPoints :
        LET look_dir == VSub(point, camera.position)
        IN IF LookAtAccepts(look_dir, camera.focal_length)
           THEN /\ camera' = [camera EXCEPT !.look_dir = Normalize(look_dir)]
                /\ UNCHANGED cpc
           ELSE /\ cpc' = "panicked"
                /\ camera' = [camera EXCEPT !.look_dir = look_dir]
    /\ UNCHANGED nonCameraVars

\* Camera::fov
CameraFov ==
    /\ cpc = "built"
    /\ \E fov \in CameraFovs : camera' = [camera EXCEPT !.fov_h = fov]
    /\ UNCHANGED <<cpc, nonCameraVars>>

\* Camera::aspect_ratio
CameraAspectRatio ==
    /\ cpc = "built"
    /\ \E aspect_ratio \in CameraAspects : camera' = [camera EXCEPT !.aspect_ratio = aspect_ratio]
    /\ UNCHANGED <<cpc, nonCameraVars>>

NextCamera == CameraDefault \/ CameraNew \/ CameraPosition \/ CameraLookAt
                \/ CameraFov \/ CameraAspectRatio

(***************************************************************************)
(* Scene::hit_point (src/scene.rs:8-22): the nearest hit over the meshes   *)
(***************************************************************************)
\* the loop over self.meshes: a mesh's hit replaces the closest one so far
\* when its distance is at or below it
RECURSIVE SceneLoopLast(_, _, _, _, _)
SceneLoopLast(meshes, r, md, k, closest) ==
    IF k > Len(meshes) THEN closest
    ELSE LET info == MeshHitPoint(meshes[k], r, md)
             closer == info.hit /\ (~closest.hit \/ FracLe(info.ray_distance, closest.ray_distance))
         IN SceneLoopLast(meshes, r, md, k + 1, IF closer THEN info ELSE closest)

\* the loop over self.meshes: closest_hit_distance starts at infinity, a
\* mesh's hit replaces the closest one so far when its distance is lower
RECURSIVE SceneLoop(_, _, _, _, _)
SceneLoop(meshes, r, md, k, closest) ==
    IF k > Len(meshes) THEN closest
    ELSE LET info == MeshHitPoint(meshes[k], r, md)
             closer == info.hit /\ (~closest.hit \/ FracLt(info.ray_distance, closest.ray_distance))
         IN SceneLoop(meshes, r, md, k + 1, IF closer THEN info ELSE closest)

\* Scene::hit_point
SceneHitPoint(meshes, r, md) == SceneLoop(meshes, r, md, 1, NoHit)

\* all triangles of all meshes, in scene order
RECURSIVE AllTriangles(_)
AllTriangles(meshes) ==
    IF meshes = <<>> THEN <<>> ELSE Head(meshes).triangles \o AllTriangles(Tail(meshes))

\* the triangles, origins and materials of the meshes of the scenes
SceneTriangles ==
    { [points |-> <<<<0, 0, 0>>, qs[1], qs[2]>>, material |-> "Light"] :
        qs \in { << <<1, 0, 0>>, <<0, 1, 0>> >>, << <<0, 1, 0>>, <<1, 0, 0>> >>,
                 << <<1, 0, 0>>, <<0, 0, 1>> >> } }
SceneMaterials == {"Light", "Diffuse"}
SceneMeshPool ==
    { MeshFromTris(o, <<t>>, mat) : o \in MeshOrigins, t \in SceneTriangles, mat \in SceneMaterials }
SceneRayOrigins == { <<0, 0, 1>>, <<-1, 0, 1>>, <<1, 1, 1>> }
MaxSceneMeshes == 2

\* Scene::new(meshes)
Scenes(max_meshes) == UNION { [1..n -> SceneMeshPool] : n \in 0..max_meshes }

NoQuery == [meshes |-> <<>>, ray |-> <<>>, min_distance |-> 0]

IdleScene ==
    /\ qpc = "idle"
    /\ query = NoQuery
    /\ scene_hit = NoHit
    /\ nearest_hit = NoHit

InitScene ==
    /\ qpc = "query"
    /\ \E meshes \in Scenes(MaxSceneMeshes), o \in SceneRayOrigins, d \in RayDirections,
          md \in MinDistances :
        query = [meshes |-> meshes, ray |-> RayNew(o, d), min_distance |-> md]
    /\ scene_hit = NoHit
    /\ nearest_hit = NoHit

\* the query answered by Scene::hit_point and by the scan over every triangle
SceneQuery ==
    /\ qpc = "query"
    /\ scene_hit' = SceneHitPoint(query.meshes, query.ray, query.min_distance)
    /\ nearest_hit' = ScanFrom(AllTriangles(query.meshes), query.ray, query.min_distance, 1, NoHit)
    /\ qpc' = "answered"
    /\ UNCHANGED <<query, nonSceneVars>>

NextScene == SceneQuery

(***************************************************************************)
(* CuletViewer (culet_viewer/src/main.rs)                                  *)
(*                                                                         *)
(* The viewer holds its render options, the frame buffer and the channel   *)
(* and flag of the render started last.  One call of update is a change    *)
(* made in the settings panel (or none), the restart of the render when    *)
(* the change calls for it, and the loop that drains the channel.  The     *)
(* workers of every render started so far run beside it.  A Scene is       *)
(* reached through an Arc pointer: `scenes` holds the Scene values, the    *)
(* options hold an index into it.                                          *)
(***************************************************************************)
\* const DEFAULT_SIZE: usize = 400, scaled down
DEFAULT_SIZE == 1
\* std::thread::available_parallelism()
AvailableParallelism == 1
\* for _ in 0..100000, scaled down
DrainBound == 1
\* the renders started in the life of the viewer
MaxRenders == 3

\* values the settings panel can give
ViewerSizes == {0, 1}
ViewerBounces == {1, 2}
ViewerGemColors == {0, 1}
ViewerGemRis == {1, 2}
ViewerLightIntensities == {1}
ViewerCameras == {0, 1}

\* a frame buffer that keeps the size the viewer started with
DefaultImage(width, height) ==
    [width |-> DEFAULT_SIZE, height |-> DEFAULT_SIZE,
     pixels |-> [xy \in (0..(DEFAULT_SIZE - 1)) \X (0..(DEFAULT_SIZE - 1)) |-> 0]]

\* ColorImage::new([width, height], Color32::BLACK)
ColorImageNew(width, height) ==
    [width |-> width, height |-> height,
     pixels |-> [xy \in (0..(width - 1)) \X (0..(height - 1)) |-> 0]]

\* convert of every channel: (c.clamp(0.0, 1.0) * u8::MAX as f32).round() as u8
Convert(color) ==
    IF color.n <= 0 THEN 0
    ELSE IF color.n >= color.d THEN 255
    ELSE (2 * 255 * color.n + color.d) \div (2 * color.d)

\* a change made in the settings panel in one update: resp.changed() holds
\* only for a value other than the present one
ViewerChanges(opts) ==
    {[kind |-> "none", value |-> 0]}
    \union {[kind |-> "resolution", value |-> v] : v \in ViewerSizes \ {opts.image_width}}
    \union {[kind |-> "threads", value |-> v] : v \in (1..AvailableParallelism) \ {opts.threads}}
    \union {[kind |-> "bounces", value |-> v] : v \in ViewerBounces \ {opts.max_bounces}}
    \union {[kind |-> "color", value |-> v] : v \in ViewerGemColors \ {opts.gem_color}}
    \union {[kind |-> "ri", value |-> v] : v \in ViewerGemRis \ {opts.gem_ri}}
    \union {[kind |-> "lighting", value |-> v] : v \in ViewerLightIntensities \ {opts.light_intensity}}
    \union {[kind |-> "rotation", value |-> v] : v \in ViewerCameras \ {opts.camera}}

\* the widgets writing into self.render_options, and image_height following
\* image_width when the resolution changed
Changed(opts, change) ==
    CASE change.kind = "resolution" ->
            [opts EXCEPT !.image_width = change.value, !.image_height = change.value]
      [] change.kind = "threads" -> [opts EXCEPT !.threads = change.value]
      [] change.kind = "bounces" -> [opts EXCEPT !.max_bounces = change.value]
      [] change.kind = "color" -> [opts EXCEPT !.gem_color = change.value]
      [] change.kind = "ri" -> [opts EXCEPT !.gem_ri = change.value]
      [] change.kind = "lighting" -> [opts EXCEPT !.light_intensity = change.value]
      [] change.kind = "rotation" -> [opts EXCEPT !.camera = change.value]
      [] OTHER -> opts

\* render_dirty
RenderDirty(change) ==
    change.kind \in {"rotation", "resolution", "bounces", "color", "ri", "lighting"}

\* the scene changed where it is, for everyone who holds the pointer
SceneInPlace(heap, opts, change) ==
    [heap EXCEPT ![opts.scene] = [gem_color |-> opts.gem_color, gem_ri |-> opts.gem_ri]]

\* (*self.render_options.scene).clone(), apply_color / apply_ri on the clone,
\* Arc::new(new_scene): a new Scene value, the old one left as it is
SceneCloned(heap, opts, change) ==
    Append(heap, [heap[opts.scene] EXCEPT
                    !.gem_color = IF change.kind = "color" THEN opts.gem_color ELSE @,
                    !.gem_ri = IF change.kind = "ri" THEN opts.gem_ri ELSE @])

\* what a render's workers read: the options cloned into the closures and
\* the Scene behind their Arc
Snapshot(opts, heap) == [options |-> opts, scene |-> heap[opts.scene]]

\* the state render_streaming sets up before it spawns the tasks
NewRender(opts, heap) ==
    [options |-> opts, chunks |-> <<>>, tasks |-> <<>>, aborted |-> FALSE,
     channel |-> <<>>, early_abort |-> FALSE,
     taken |-> 0, connected |-> TRUE, started_with |-> Snapshot(opts, heap)]

\* options.trace(&ray, options.max_bounces) of a worker of render r: a fixed
\* function of the ray, the options and the scene the worker holds
ViewerTraceColor(r, heap, x, y, jitter) ==
    (TraceColor(x, y, jitter) + r.options.max_bounces + r.options.light_intensity
        + r.options.camera + heap[r.options.scene].gem_color
        + heap[r.options.scene].gem_ri) % 3

\* RenderOptions built in CuletViewer::new
ViewerOptions ==
    [image_width |-> DEFAULT_SIZE, image_height |-> DEFAULT_SIZE, samples_per_pixel |-> 1,
     threads |-> AvailableParallelism, max_bounces |-> 2, gem_color |-> 0, gem_ri |-> 1,
     light_intensity |-> 1, camera |-> 0, scene |-> 1]

IdleViewer ==
    /\ vpc = "idle"
    /\ viewer = <<>>
    /\ renders = <<>>
    /\ scenes = <<>>

\* CuletViewer::new: the first render is started
InitViewer ==
    /\ vpc = "ui"
    /\ scenes = << [gem_color |-> 0, gem_ri |-> 1] >>
    /\ viewer = [render_options |-> ViewerOptions,
                 frame_buffer |-> ColorImageNew(DEFAULT_SIZE, DEFAULT_SIZE), n |-> 0]
    /\ \E pixels \in Shuffles(DEFAULT_SIZE * DEFAULT_SIZE) :
        renders = << Spawned(NewRender(ViewerOptions, scenes), pixels) >>

\* a viewer that keeps the channel and flag of its first render
FirstRender == CHOOSE r \in DOMAIN renders : \A q \in DOMAIN renders : r <= q

\* the render whose channel and flag the viewer holds
Current == Len(renders)

\* the old Receiver dropped without a call of abort
Dropped(r) == [r EXCEPT !.connected = FALSE]

\* self.render_abort.abort(), and self.render_stream replaced: the old
\* Receiver is dropped
Left(r) == [Aborted(r) EXCEPT !.connected = FALSE]

\* the Image Size widget alone, dragged to any other of these sizes, the
\* images being of 0, 1 and 4 pixels
ResizeSizes == {0, 1, 2}
\* the times the image is resized in the life of the viewer
MaxResizes == 1
ResizeChanges(opts) ==
    {[kind |-> "none", value |-> 0]}
    \union {[kind |-> "resolution", value |-> v] : v \in ResizeSizes \ {opts.image_width}}

\* CuletViewer::update up to the start of the drain loop, for the changes the
\* settings panel can report, the renders started being at most max_renders
Update(changes, max_renders) ==
    /\ vpc = "ui"
    /\ \E change \in changes :
        LET changed == Changed(viewer.render_options, change)
            scene_changed == change.kind \in {"color", "ri"}
            heap == IF scene_changed THEN SceneCloned(scenes, changed, change) ELSE scenes
            opts == IF scene_changed THEN [changed EXCEPT !.scene = Len(heap)] ELSE changed
        IN /\ scenes' = heap
           /\ IF RenderDirty(change)
              THEN /\ Len(renders) < max_renders
                   /\ \E pixels \in Shuffles(opts.image_width * opts.image_height) :
                        renders' = Append([renders EXCEPT ![Current] = Left(@)],
                                          Spawned(NewRender(opts, heap), pixels))
                   /\ viewer' = [render_options |-> opts,
                                 frame_buffer |-> ColorImageNew(opts.image_width, opts.image_height),
                                 n |-> 0]
              ELSE /\ renders' = renders
                   /\ viewer' = [viewer EXCEPT !.render_options = opts, !.n = 0]
    /\ vpc' = "drain"
    /\ UNCHANGED nonViewerVars

\* update after any change of the settings panel
ViewerUpdate == Update(ViewerChanges(viewer.render_options), MaxRenders)

\* update when only the Image Size widget is used
ViewerResize == Update(ResizeChanges(viewer.render_options), MaxResizes + 1)

\* a loop without a bound on its turns
LoopNeverEnds(n) == TRUE

\* for _ in 0..100000: the loop has a turn left after n turns
LoopRuns(n) == n < DrainBound

\* one turn of the drain loop: try_recv gives a message, which is written
\* into the frame buffer
ViewerRecv ==
    /\ vpc = "drain"
    /\ LoopRuns(viewer.n)
    /\ renders[Current].taken < Len(renders[Current].channel)
    /\ LET msg == renders[Current].channel[renders[Current].taken + 1]
           fb == viewer.frame_buffer
       IN /\ renders' = [renders EXCEPT ![Current].taken = @ + 1]
          /\ IF msg.kind # "Pixel"
             THEN /\ vpc' = "unreachable"
                  /\ UNCHANGED viewer
             ELSE IF msg.x < fb.width /\ msg.y < fb.height
             THEN /\ viewer' = [viewer EXCEPT
                                  !.frame_buffer.pixels[<<msg.x, msg.y>>] = Convert(msg.color),
                                  !.n = @ + 1]
                  /\ UNCHANGED vpc
             ELSE /\ vpc' = "out_of_bounds"
                  /\ UNCHANGED viewer
    /\ UNCHANGED <<scenes, nonViewerVars>>

\* the drain loop ends: try_recv gave nothing, or the bound is reached
ViewerBreak ==
    /\ vpc = "drain"
    /\ ~LoopRuns(viewer.n) \/ renders[Current].taken = Len(renders[Current].channel)
    /\ vpc' = "ui"
    /\ UNCHANGED <<viewer, renders, scenes, nonViewerVars>>

\* tx.send on a channel whose Receiver is dropped: Err, which the worker ignores
SentToNobody(r, t) == [Sent(r, t) EXCEPT !.channel = r.channel]

\* the workers of every render started so far
WorkerStart ==
    /\ vpc \in {"ui", "drain"}
    /\ \E r \in 1..Len(renders) : \E t \in 1..Len(renders[r].tasks) :
        /\ renders[r].tasks[t].pc = "queued"
        /\ Cardinality(Running(renders[r])) < renders[r].options.threads
        /\ renders' = [renders EXCEPT ![r] = Started(@, t)]
    /\ UNCHANGED <<vpc, viewer, scenes, nonViewerVars>>

WorkerCheck ==
    /\ vpc \in {"ui", "drain"}
    /\ \E r \in 1..Len(renders) : \E t \in 1..Len(renders[r].tasks) :
        /\ renders[r].tasks[t].pc = "check"
        /\ renders' = [renders EXCEPT ![r] = Checked(@, t)]
    /\ UNCHANGED <<vpc, viewer, scenes, nonViewerVars>>

WorkerTrace ==
    /\ vpc \in {"ui", "drain"}
    /\ \E r \in 1..Len(renders) : \E t \in 1..Len(renders[r].tasks) :
        /\ renders[r].tasks[t].pc = "trace"
        /\ renders' = [renders EXCEPT ![r] =
                Traced(@, t, ViewerTraceColor(@, scenes, PixelX(@, t), PixelY(@, t),
                                              JitterOf(@.tasks[t])))]
    /\ UNCHANGED <<vpc, viewer, scenes, nonViewerVars>>

WorkerSend ==
    /\ vpc \in {"ui", "drain"}
    /\ \E r \in 1..Len(renders) : \E t \in 1..Len(renders[r].tasks) :
        /\ renders[r].tasks[t].pc = "send"
        /\ renders' = [renders EXCEPT ![r] =
                IF @.connected THEN Sent(@, t) ELSE SentToNobody(@, t)]
    /\ UNCHANGED <<vpc, viewer, scenes, nonViewerVars>>

NextViewer == ViewerUpdate \/ ViewerRecv \/ ViewerBreak
                \/ WorkerStart \/ WorkerCheck \/ WorkerTrace \/ WorkerSend

\* the viewer of a user who only resizes the image
ViewerWorkers == WorkerStart \/ WorkerCheck \/ WorkerTrace \/ WorkerSend
Ticks == ViewerResize \/ ViewerRecv \/ ViewerBreak
NextResize == ViewerResize \/ ViewerRecv \/ ViewerBreak
                \/ WorkerStart \/ WorkerCheck \/ WorkerTrace \/ WorkerSend

(***************************************************************************)
(* fresnel (culet_lib/src/render.rs:294-309)                               *)
(*                                                                         *)
(* Numbers are rationals in lowest terms, or NaN.  The arguments are drawn *)
(* so that every square root the function takes is rational: unit vectors  *)
(* with coordinates in fifths, and refractive indices for which the sine   *)
(* and cosine of the transmission angle are rational.                      *)
(***************************************************************************)
\* a rational in lowest terms, its denominator positive
Rat(n, d) ==
    LET g == Gcd(Abs(n), Abs(d))
    IN IF d < 0 THEN [n |-> -(n \div g), d |-> -(d \div g)] ELSE [n |-> n \div g, d |-> d \div g]

RNaN == [n |-> 0, d |-> 0]
IsNaN(a) == a.d = 0

RAdd(a, b) == IF IsNaN(a) \/ IsNaN(b) THEN RNaN ELSE Rat(a.n * b.d + b.n * a.d, a.d * b.d)
RSub(a, b) == IF IsNaN(a) \/ IsNaN(b) THEN RNaN ELSE Rat(a.n * b.d - b.n * a.d, a.d * b.d)
RMul(a, b) == IF IsNaN(a) \/ IsNaN(b) THEN RNaN ELSE Rat(a.n * b.n, a.d * b.d)
RGt(a, b) == ~IsNaN(a) /\ ~IsNaN(b) /\ a.n * b.d > b.n * a.d
RGe(a, b) == ~IsNaN(a) /\ ~IsNaN(b) /\ a.n * b.d >= b.n * a.d

\* a / b of two finite numbers with b >= 0: 0.0 / 0.0 is NaN; a / 0.0 with
\* a != 0 does not occur for the arguments drawn
RDiv(a, b) ==
    IF IsNaN(a) \/ IsNaN(b) \/ b.n = 0 THEN RNaN ELSE Rat(a.n * b.d, a.d * b.n)

\* f32::abs, f32::max(0.0)
RAbs(a) == IF IsNaN(a) THEN RNaN ELSE Rat(Abs(a.n), a.d)
RMax0(a) == IF IsNaN(a) \/ a.n < 0 THEN Rat(0, 1) ELSE a

\* the square root of a natural number that is a square
ISqrt(n) == CHOOSE r \in 0..n : r * r = n
IsSquare(n) == \E r \in 0..n : r * r = n

\* f32::sqrt of a rational >= 0 whose root is rational
RSqrt(a) == IF IsNaN(a) THEN RNaN ELSE Rat(ISqrt(a.n), ISqrt(a.d))
HasRoot(a) == ~IsNaN(a) /\ a.n >= 0 /\ IsSquare(a.n) /\ IsSquare(a.d)

ROne == Rat(1, 1)

\* Vec3::dot of two vectors given in fifths
DotFifths(a, b) == Rat(Dot(a, b), 25)

\* (eta_i / eta_t) * (1.0 - cos_i * cos_i).max(0.0).sqrt()
SinT(cos_i, eta_i, eta_t) ==
    RMul(Rat(eta_i, eta_t), RSqrt(RMax0(RSub(ROne, RMul(cos_i, cos_i)))))

\* the test for total internal reflection, were it made with >=
TotalReflectionAtCritical(sin_t) == RGe(sin_t, ROne)

\* if sin_t > 1.0
TotalReflection(sin_t) == RGt(sin_t, ROne)

\* fresnel
Fresnel(incoming, normal, eta_i, eta_t) ==
    LET cos_i == DotFifths(incoming, normal)
        sin_t == SinT(cos_i, eta_i, eta_t)
        cos_t == RSqrt(RMax0(RSub(ROne, RMul(sin_t, sin_t))))
        ci == RAbs(cos_i)
        ei == Rat(eta_i, 1)
        et == Rat(eta_t, 1)
        r_s == RDiv(RSub(RMul(et, ci), RMul(ei, cos_t)), RAdd(RMul(et, ci), RMul(ei, cos_t)))
        r_p == RDiv(RSub(RMul(ei, ci), RMul(et, cos_t)), RAdd(RMul(ei, ci), RMul(et, cos_t)))
    IN IF TotalReflection(sin_t) THEN ROne
       ELSE RDiv(RAdd(RMul(r_s, r_s), RMul(r_p, r_p)), Rat(2, 1))

\* unit vectors with coordinates in fifths
UnitFifths ==
    { v \in {-5, -4, -3, 0, 3, 4, 5} \X {-5, -4, -3, 0, 3, 4, 5} \X {-5, -4, -3, 0, 3, 4, 5} :
        Dot(v, v) = 25 }

\* refractive indices
MaxEta == 5

\* eta_i / eta_t is a binary fraction, which f32 holds exactly
ExactQuotient(eta_i, eta_t) == \E k \in 0..eta_t : (eta_i * 2 ^ k) % eta_t = 0

\* the arguments for which the roots fresnel takes are rational, and on which
\* f32 arithmetic gives what exact arithmetic gives up to rounding: not so at
\* the critical angle when eta_i / eta_t is rounded, where sin_t is 1 and the
\* rounding decides on which side of 1.0 the f32 value falls (5.0 / 3.0 * 0.6
\* is 0.99999994, and fresnel returns 0.998 and not 1)
FresnelArgs ==
    { a \in [incoming : UnitFifths, normal : UnitFifths, eta_i : 1..MaxEta, eta_t : 1..MaxEta] :
        LET cos_i == DotFifths(a.incoming, a.normal)
            sin_t == SinT(cos_i, a.eta_i, a.eta_t)
        IN /\ HasRoot(RMax0(RSub(ROne, RMul(cos_i, cos_i))))
           /\ HasRoot(RMax0(RSub(ROne, RMul(sin_t, sin_t))))
           /\ ~(sin_t = ROne /\ ~ExactQuotient(a.eta_i, a.eta_t)) }

NoFresnelArgs == [incoming |-> <<0, 0, 0>>, normal |-> <<0, 0, 0>>, eta_i |-> 0, eta_t |-> 0]

IdleFresnel ==
    /\ fpc = "idle"
    /\ fresnel_args = NoFresnelArgs
    /\ fresnel_ret = RNaN

InitFresnel ==
    /\ fpc = "call"
    /\ fresnel_args \in FresnelArgs
    /\ fresnel_ret = RNaN

FresnelCall ==
    /\ fpc = "call"
    /\ fresnel_ret' = Fresnel(fresnel_args.incoming, fresnel_args.normal,
                              fresnel_args.eta_i, fresnel_args.eta_t)
    /\ fpc' = "returned"
    /\ UNCHANGED <<fresnel_args, nonFresnelVars>>

NextFresnel == FresnelCall

(***************************************************************************)
(* Specifications: one per part of the program                             *)
(***************************************************************************)
InitSpecBvh == InitBvh /\ IdleHit /\ IdleTrace /\ IdleRender /\ IdleCamera /\ IdleScene /\ IdleViewer /\ IdleFresnel
InitSpecHit == IdleBvh /\ InitHit /\ IdleTrace /\ IdleRender /\ IdleCamera /\ IdleScene /\ IdleViewer /\ IdleFresnel
InitSpecTrace == IdleBvh /\ IdleHit /\ InitTrace /\ IdleRender /\ IdleCamera /\ IdleScene /\ IdleViewer /\ IdleFresnel
InitSpecRender == IdleBvh /\ IdleHit /\ IdleTrace /\ InitRender /\ IdleCamera /\ IdleScene /\ IdleViewer /\ IdleFresnel
InitSpecCamera == IdleBvh /\ IdleHit /\ IdleTrace /\ IdleRender /\ InitCamera /\ IdleScene /\ IdleViewer /\ IdleFresnel
InitSpecScene == IdleBvh /\ IdleHit /\ IdleTrace /\ IdleRender /\ IdleCamera /\ InitScene /\ IdleViewer /\ IdleFresnel
InitSpecViewer == IdleBvh /\ IdleHit /\ IdleTrace /\ IdleRender /\ IdleCamera /\ IdleScene /\ InitViewer /\ IdleFresnel
InitSpecFresnel == IdleBvh /\ IdleHit /\ IdleTrace /\ IdleRender /\ IdleCamera /\ IdleScene /\ IdleViewer /\ InitFresnel

SpecBvh == InitSpecBvh /\ [][NextBvh]_vars
SpecHit == InitSpecHit /\ [][NextHit]_vars
SpecTrace == InitSpecTrace /\ [][NextTrace]_vars
SpecRender == InitSpecRender /\ [][NextRender]_vars
SpecShuffle == InitSpecRender /\ [][NextShuffle]_vars
SpecCamera == InitSpecCamera /\ [][NextCamera]_vars
SpecScene == InitSpecScene /\ [][NextScene]_vars
SpecViewer == InitSpecViewer /\ [][NextViewer]_vars
SpecFresnel == InitSpecFresnel /\ [][NextFresnel]_vars
SpecResize == InitSpecViewer /\ [][NextResize]_vars

\* eframe calls update again and again, and the pool's threads run
FairSpecResize == SpecResize /\ WF_vars(Ticks) /\ WF_vars(ViewerWorkers)

\* the pool's threads are operating-system threads: a task that can take a
\* step is not held back for ever
FairSpecRender == SpecRender /\ WF_vars(Workers)

(***************************************************************************)
(* Bvh: properties                                                         *)
(***************************************************************************)
NodeAt(k) == nodes[k + 1]
NodesInUse == 0..(node_count - 1)
LeafRange(k) == NodeAt(k).left_or_first .. (NodeAt(k).left_or_first + NodeAt(k).triangle_count - 1)

\* the children the node encoding gives node k: left_or_first and left_or_first + 1
ChildrenOf(k) == {NodeAt(k).left_or_first, NodeAt(k).left_or_first + 1}

\* nodes reachable from the root through the children of triangle_count = 0 nodes
RECURSIVE ReachClosure(_)
ReachClosure(S) ==
    LET T == S \cup { c \in 0..(Len(nodes) - 1) :
                        \E k \in S : NodeAt(k).triangle_count = 0 /\ c \in ChildrenOf(k) }
    IN IF T = S THEN S ELSE ReachClosure(T)

ReachableLeaves == { k \in ReachClosure({0}) : NodeAt(k).triangle_count > 0 }

BoxInside(inner, outer) ==
    \A a \in 1..3 : outer.aabb_min[a] <= inner.aabb_min[a] /\ inner.aabb_max[a] <= outer.aabb_max[a]

PointInside(v, outer) ==
    \A a \in 1..3 : outer.aabb_min[a] <= v[a] /\ v[a] <= outer.aabb_max[a]

\* nodes that subdivide has split: they have two children among the nodes in use
SplitNodesInUse ==
    { k \in NodesInUse : NodeAt(k).triangle_count = 0 /\ ChildrenOf(k) \subseteq NodesInUse \ {k} }

\* C1: after Bvh::new, triangle_indices is a permutation of 0..n-1 and the ranges
\* of the leaves reachable from the root are pairwise disjoint and cover exactly
\* [0, n): every position lies in the range of exactly one leaf.
C1_LeafRangesPartition ==
    bpc = "done" =>
        LET n == NTris(indices)
        IN /\ Len(triangle_indices) = n
           /\ { triangle_indices[p] : p \in 1..n } = 0..(n - 1)
           /\ \A k \in ReachableLeaves : LeafRange(k) \subseteq 0..(n - 1)
           /\ \A p \in 0..(n - 1) :
                Cardinality({ k \in ReachableLeaves : p \in LeafRange(k) }) = 1

\* a finished tree of at least two splits over four triangles
C1_Witness ==
    /\ bpc = "done"
    /\ NTris(indices) >= 4
    /\ node_count >= 5
    /\ Cardinality(ReachableLeaves) >= 3

\* C2: after Bvh::new, the box of every split node contains the boxes of both of
\* its children on every axis, and the box of every leaf contains the three
\* corners of every triangle of its range.
C2_BoxContainment ==
    bpc = "done" =>
        /\ \A k \in SplitNodesInUse :
              \A c \in ChildrenOf(k) : BoxInside(NodeAt(c), NodeAt(k))
        /\ \A k \in NodesInUse :
              NodeAt(k).triangle_count > 0 =>
                \A p \in LeafRange(k) : \A c \in 0..2 :
                    PointInside(Corner(indices, triangle_indices[p + 1], c), NodeAt(k))

\* a finished tree with a split node one of whose children has a strictly smaller
\* box, and a leaf of two triangles
C2_Witness ==
    /\ bpc = "done"
    /\ \E k \in SplitNodesInUse : \E c \in ChildrenOf(k) :
          /\ NodeAt(c).aabb_min # NodeAt(k).aabb_min
          /\ NodeAt(c).triangle_count = 2

\* C3: after Bvh::new on any mesh, the empty one included, every node in use with
\* triangle_count = 0 is an internal node whose children left_or_first and
\* left_or_first + 1 lie after it and below node_count, and every node in use with
\* triangle_count > 0 is a leaf whose range lies inside [0, n).
C3_NodeEncoding ==
    bpc = "done" =>
        \A k \in NodesInUse :
            /\ NodeAt(k).triangle_count = 0 =>
                  \A c \in ChildrenOf(k) : k < c /\ c < node_count
            /\ NodeAt(k).triangle_count > 0 =>
                  LeafRange(k) \subseteq 0..(NTris(indices) - 1)

(***************************************************************************)
(* Mesh::hit_point: properties                                             *)
(***************************************************************************)
\* C4: for every ray and every mesh, Mesh::hit_point (bounding box first) returns
\* what the scan over all triangles returns: the same distance and material, or
\* no hit in both.
C4_BoxFirstEqualsScan ==
    hpc = "answered" => mesh_hit = scan_hit

(***************************************************************************)
(* RenderOptions::trace: properties                                        *)
(***************************************************************************)
\* a call of trace has ended (returned or failed) on a hit
EndedOnHit == last.outcome # "none" /\ last.info.hit

\* C5: whenever the nearest hit of a trace call has a Light material, the call
\* returns that material's emission color, whatever its bounce budget, 0 included.
C5_LightReturnsEmission ==
    (EndedOnHit /\ last.info.material = "Light") =>
        (last.outcome = "returned" /\ last.value = last.info.color)

\* C6: a trace call with a bounce budget of 0 whose ray hits a surface that is
\* not a Light returns exactly black and makes no recursive call.
C6_OutOfBouncesIsBlack ==
    (EndedOnHit /\ last.budget = 0 /\ last.info.material # "Light") =>
        (last.outcome = "returned" /\ last.value = Black /\ last.made = 0)

\* a secondary ray with no bounces left has hit the gem and returned
C6_Witness ==
    /\ EndedOnHit /\ last.budget = 0 /\ last.info.material = "Refractive"
    /\ last.info.color # Black
    /\ last.outcome = "returned"
    /\ frames # <<>>

\* C7: whenever a trace call hits a Diffuse material, whatever its bounce budget,
\* it ends in the unimplemented failure and returns no color.
C7_DiffuseIsUnimplemented ==
    (EndedOnHit /\ last.info.material = "Diffuse") =>
        (last.outcome = "unimplemented" /\ last.value = NoValue)

(***************************************************************************)
(* Properties of render_streaming                                          *)
(***************************************************************************)
PixelCount == render.options.image_width * render.options.image_height
TaskIds == 1..Len(render.tasks)

\* the flag was set before any worker took its first sample, in a render
\* with more than one thread and more than one sample per pixel
EarlyCancellation ==
    /\ rpc = "streaming"
    /\ render.early_abort
    /\ render.options.threads > 1
    /\ render.options.samples_per_pixel > 1
    /\ PixelCount >= 1

C9_StopsAfterAbort ==
    rpc = "streaming" =>
        \A t \in TaskIds :
            /\ render.tasks[t].sent_after_abort <= 1
            /\ render.tasks[t].sampled_after_abort <= 1
            /\ render.tasks[t].broke => render.tasks[t].pc = "done"
            /\ render.tasks[t].pc = "trace" =>
                   render.tasks[t].i < render.options.samples_per_pixel

C9_Witness ==
    /\ rpc = "streaming"
    /\ \E t \in TaskIds :
        /\ render.tasks[t].sent_after_abort = 1
        /\ render.tasks[t].sampled_after_abort = 1
        /\ render.tasks[t].broke
        /\ render.tasks[t].pc = "done"
        /\ render.tasks[t].k < Len(render.chunks[t])

\* C10: the shuffled pixel list is split into contiguous chunks, one per
\* worker thread: as many chunks as threads, at most as many when there are
\* fewer pixels than threads.
C10_OneChunkPerThread ==
    rpc = "streaming" =>
        /\ IF PixelCount >= render.options.threads
           THEN Len(render.chunks) = render.options.threads
           ELSE Len(render.chunks) <= render.options.threads
        /\ Len(render.tasks) = Len(render.chunks)

\* C11: the shuffle is deterministic: two calls of render_streaming with the
\* same image dimensions and thread count give the same pixel order and so
\* the same chunks.
C11_ShuffleDeterministic ==
    \A a, b \in 1..Len(shuffles) : shuffles[a] = shuffles[b]

(***************************************************************************)
(* Properties of Camera                                                    *)
(***************************************************************************)
\* C12: every Camera built by Camera::new, Camera::default and the builder
\* methods has a look direction and an up vector that are not parallel:
\* their cross product is not zero.
C12_LookNotParallelToUp ==
    cpc = "built" => Cross(camera.look_dir, camera.up) # <<0, 0, 0>>

(***************************************************************************)
(* Properties of Scene::hit_point                                          *)
(***************************************************************************)
\* C13: Scene::hit_point returns, among all triangle hits of all meshes
\* beyond the minimum distance, one with the lowest distance, the first in
\* scene order on a tie, and no hit only when there is none; so the nearer
\* of two surfaces supplies the material.
C13_SceneNearestHit ==
    qpc = "answered" => scene_hit = nearest_hit

(***************************************************************************)
(* Properties of the viewer and its renders                                *)
(***************************************************************************)
RenderIds == 1..Len(renders)

\* C14: for the whole life of a render its workers read the options and the
\* scene as they were when render_streaming was called: whatever the viewer
\* changes later, the options of every render started and the Scene behind
\* its pointer stay what they were at its start.
C14_SnapshotUnchanged ==
    \A r \in RenderIds : Snapshot(renders[r].options, scenes) = renders[r].started_with

C14_Witness ==
    /\ Len(renders) >= 2
    /\ renders[1].started_with.scene # scenes[viewer.render_options.scene]
    /\ renders[1].started_with.options.image_width # viewer.render_options.image_width
    /\ renders[1].tasks[1].sampled_after_abort = 1
    /\ renders[1].tasks[1].pc = "send"

\* C15: every message on the channel of a render is a Pixel message, and the
\* consumer never comes to its arm for RenderMsg::Abort.
C15_OnlyPixelMessages ==
    /\ vpc # "unreachable"
    /\ \A r \in RenderIds : \A k \in 1..Len(renders[r].channel) :
            renders[r].channel[k].kind = "Pixel"

C15_Witness ==
    /\ Len(renders) >= 2
    /\ renders[1].aborted
    /\ renders[1].channel # <<>>
    /\ renders[Current].taken = 1
    /\ vpc = "ui"

(***************************************************************************)
(* Properties of fresnel                                                   *)
(***************************************************************************)
\* C16: for unit vectors and refractive indices > 0 fresnel returns a
\* reflectance in [0, 1], and exactly 1 when the sine of the transmission
\* angle is 1 or more.
C16_FresnelRange ==
    fpc = "returned" =>
        /\ RGe(fresnel_ret, Rat(0, 1)) /\ RGe(ROne, fresnel_ret)
        /\ RGe(SinT(DotFifths(fresnel_args.incoming, fresnel_args.normal),
                    fresnel_args.eta_i, fresnel_args.eta_t), ROne)
             => fresnel_ret = ROne

(***************************************************************************)
(* Bvh::subdivide: properties of a single call                             *)
(***************************************************************************)
\* C17: for every node subdivide processes, the root at offset 0 included,
\* the partition scan never moves an index outside the node's range and
\* never fails; a partition with an empty side leaves the node a leaf.
C17_PartitionNeverFails ==
    bpc # "panic"

\* subdivide is about to partition the node on top of the call stack
Partitioning == bpc = "build" /\ calls # <<>> /\ NodeAt(Head(calls)).triangle_count > 2

\* triangle tri has its centroid strictly below the midpoint of the box of
\* node on the longest axis of that box
CentroidBelowMid(tri, node) ==
    2 * Centroid3(indices, tri, SplitAxis(node)) < 3 * Split2(node, SplitAxis(node))

\* ti is partitioned at position i over the range of node
PartitionedAt(ti, node, i) ==
    /\ \A p \in node.left_or_first .. (i - 1) : CentroidBelowMid(ti[p + 1], node)
    /\ \A p \in i .. (node.left_or_first + node.triangle_count - 1) :
            ~CentroidBelowMid(ti[p + 1], node)

\* how often triangle index v stands in the positions first .. first + count - 1 of ti
Occurrences(ti, first, count, v) ==
    Cardinality({ p \in first .. (first + count - 1) : ti[p + 1] = v })

\* C18: when the partition of a node with range [first, first + count)
\* finishes with index i, every triangle at a position in [first, i) has
\* its centroid strictly below the split value, every one in
\* [i, first + count) has it at or above, the multiset of triangle indices
\* in the range is unchanged and positions outside it are untouched.  After
\* a split i is the first position of the right child.
C18_PartitionPostcondition ==
    [][ (Partitioning /\ bpc' = "build") =>
            LET node == NodeAt(Head(calls))
                first == node.left_or_first
                count == node.triangle_count
            IN /\ \E i \in first .. (first + count) :
                    /\ PartitionedAt(triangle_indices', node, i)
                    /\ node_count' > node_count => nodes'[node_count + 2].left_or_first = i
               /\ \A v \in 0 .. (NTris(indices) - 1) :
                    Occurrences(triangle_indices', first, count, v)
                        = Occurrences(triangle_indices, first, count, v)
               /\ \A p \in 0 .. (NTris(indices) - 1) :
                    p \notin first .. (first + count - 1)
                        => triangle_indices'[p + 1] = triangle_indices[p + 1]
      ]_vars

\* a split of a node that does not start at position 0, after a partition
\* that swapped
C18_Witness ==
    /\ bpc = "build"
    /\ node_count >= 5
    /\ NodeAt(node_count - 2).left_or_first > 0
    /\ \E p \in 1..Len(triangle_indices) : triangle_indices[p] # p - 1

\* C19: Bvh::new never uses a node slot outside the 2n + 1 it allocates: at
\* every step node_count <= 2n + 1, and the nodes written, all below
\* node_count, are slots of the allocation.
C19_NodeSlotsSuffice ==
    bpc \in {"build", "done", "panic"} =>
        /\ node_count <= 2 * NTris(indices) + 1
        /\ node_count <= Len(nodes)

C19_Witness ==
    /\ bpc = "done"
    /\ NTris(indices) = 4
    /\ node_count = 5
    /\ Len(nodes) = 9

\* a leaf whose triangles all lie on one side of the midpoint of its box
OneSided(k) ==
    \/ \A p \in LeafRange(k) : CentroidBelowMid(triangle_indices[p + 1], NodeAt(k))
    \/ \A p \in LeafRange(k) : ~CentroidBelowMid(triangle_indices[p + 1], NodeAt(k))

\* C20: subdivide never splits a node of 2 or fewer triangles, and so every
\* leaf of the finished tree with more than 2 triangles is a node whose
\* midpoint partition put all of its triangles on one side.
C20_SmallNodesStayLeaves ==
    /\ [][ (bpc = "build" /\ node_count' > node_count) =>
                NodeAt(Head(calls)).triangle_count > 2 ]_vars
    /\ [](bpc = "done" =>
            \A k \in ReachableLeaves : NodeAt(k).triangle_count > 2 => OneSided(k))

\* a finished tree with a split and, away from position 0, a leaf of more
\* than 2 triangles
C20_Witness ==
    /\ bpc = "done"
    /\ node_count >= 3
    /\ \E k \in ReachableLeaves : NodeAt(k).triangle_count > 2 /\ NodeAt(k).left_or_first > 0

(***************************************************************************)
(* RenderOptions::trace: the bounce budget                                 *)
(***************************************************************************)
\* the step pushes a recursive call onto the stack of trace calls
CallsItself == Len(frames') = Len(frames) + 1

\* the most steps a call that received this budget can still take: one when
\* it cannot recurse, and otherwise the two recursive calls and the three
\* steps around them
RECURSIVE StepsOfCall(_)
StepsOfCall(budget) == IF budget <= 0 THEN 1 ELSE 3 + 2 * StepsOfCall(budget - 1)

\* the steps a call on the stack still owes beyond those of the calls above it
StepsOwed(f) ==
    CASE f.phase = "enter" -> StepsOfCall(f.budget)
      [] f.phase = "refr" -> 2 + StepsOfCall(f.budget - 1)
      [] f.phase = "refl" -> 1

RECURSIVE SumOwed(_)
SumOwed(fs) == IF fs = <<>> THEN 0 ELSE StepsOwed(Head(fs)) + SumOwed(Tail(fs))

\* a bound on the steps left before trace has returned or failed
StepsLeft == IF tpc = "running" THEN 1 + SumOwed(frames) ELSE 0

\* C21: every recursive call of trace passes a budget exactly one less than
\* the one its caller received and is made only from a call whose budget is
\* greater than 0; the stack of calls is never deeper than the initial budget
\* (plus the outermost call), and trace ends for every scene and ray: every
\* step of a running trace lowers a natural number, the steps it has left.
C21_BudgetDecreasesAndTraceEnds ==
    /\ [][CallsItself =>
            /\ Head(frames).budget > 0
            /\ Head(frames').budget = Head(frames).budget - 1
            /\ Tail(Tail(frames')) = Tail(frames)]_vars
    /\ [](tpc = "running" =>
            /\ Len(frames) <= options.max_bounces + 1
            /\ \A k \in 1..Len(frames) : frames[k].budget = options.max_bounces - (Len(frames) - k))
    /\ [][tpc = "running" => (StepsLeft' \in Nat /\ StepsLeft' < StepsLeft)]_vars
    /\ [](tpc \notin {"running", "idle"} => tpc \in {"returned", "panic"})

\* the recursion is as deep as the budget allows: the innermost call has no
\* bounce left, after one recursive call per bounce
C21_Witness ==
    /\ tpc = "running"
    /\ options.max_bounces >= 2
    /\ Len(frames) = options.max_bounces + 1
    /\ Head(frames).budget = 0
    /\ frames[2].made = 2

(***************************************************************************)
(* RenderOptions::trace: rays that hit nothing                             *)
(***************************************************************************)
\* a call of trace has returned after its ray hit nothing
ReturnedOnMiss == last.outcome = "returned" /\ ~last.info.hit

\* the light a ray that leaves the scene collects under the lighting model of
\* the options: with Cosine the intensity times the cosine to the viewer, 0
\* for a ray away from the viewer or straight at the viewer (the head
\* shadow); with Isometric the full intensity on the viewer's side
AmbientLight(opts, look_cos) ==
    CASE opts.lighting_model = "Cosine" ->
            IF look_cos <= 0 \/ look_cos = 2 THEN 0
            ELSE (opts.light_intensity * look_cos) \div 2
      [] opts.lighting_model = "Isometric" ->
            IF look_cos >= 0 THEN opts.light_intensity ELSE 0

\* C22: a trace call whose ray hits nothing returns the configured background
\* color if and only if its budget equals the configured max_bounces (the
\* primary ray); every other ray that hits nothing returns the ambient value
\* of the configured lighting model, never the background color.
C22_BackgroundOnlyForPrimaryRay ==
    ReturnedOnMiss =>
        /\ (last.value = options.background_color) <=> (last.budget = options.max_bounces)
        /\ last.budget # options.max_bounces =>
                /\ last.value = AmbientLight(options, last.info.look_cos)
                /\ last.value # options.background_color

(***************************************************************************)
(* RenderOptions::trace: the two rays of a Refractive hit                  *)
(***************************************************************************)
\* the hit lets light through: the Fresnel reflectance is below 1 and the
\* hit is not a back face whose normal, turned against the ray, points up
LetsLightThrough(info) ==
    info.reflection_ratio < 2 /\ ~(~info.front_face /\ info.normal_up)

\* a call of trace is in the Refractive arm
InRefractiveArm(f) == f.phase \in {"refr", "refl"}

\* C23: a trace call that hits a Refractive material with budget > 0 always
\* makes the recursive reflection call, and makes the recursive refraction
\* call, before it, if and only if the Fresnel reflectance is below 1 and the
\* exiting-pavilion guard is false; under total internal reflection it
\* traces no refraction ray.
C23_ReflectionAlwaysRefractionGuarded ==
    /\ \A k \in 1..Len(frames) : InRefractiveArm(frames[k]) =>
          LET f == frames[k]
          IN /\ f.info.hit /\ f.info.material = "Refractive" /\ f.budget > 0
             \* waiting for the refraction call, or for the reflection call
             \* that follows it: the hit lets light through
             /\ (f.phase = "refr" \/ f.made = 2) => LetsLightThrough(f.info)
             \* waiting for the reflection call as the only one
             /\ (f.phase = "refl" /\ f.made = 1) => ~LetsLightThrough(f.info)
             /\ f.phase = "refr" => f.made = 1
    /\ (last.outcome = "returned" /\ last.info.hit /\ last.info.material = "Refractive"
            /\ last.budget > 0) =>
          /\ last.made = IF LetsLightThrough(last.info) THEN 2 ELSE 1
          /\ last.info.reflection_ratio = 2 => last.made = 1

\* a ray inside the gem was totally reflected: the call returned the light
\* of its reflection ray alone, after one recursive call
C23_Witness ==
    /\ last.outcome = "returned" /\ last.info.hit /\ last.info.material = "Refractive"
    /\ last.budget > 0
    /\ ~last.info.front_face /\ ~last.info.normal_up
    /\ last.info.reflection_ratio = 2
    /\ last.made = 1
    /\ last.value > 0

(***************************************************************************)
(* render_streaming: the messages of a render                              *)
(***************************************************************************)
\* the coordinates of the image, and the coordinate of linear index i
Coordinates ==
    (0..(render.options.image_width - 1)) \X (0..(render.options.image_height - 1))
CoordinateOf(i) == <<i % render.options.image_width, i \div render.options.image_width>>

\* the positions of the channel that hold a Pixel message for coordinate c
MessagesFor(c) ==
    { n \in 1..Len(render.channel) :
        /\ render.channel[n].kind = "Pixel"
        /\ <<render.channel[n].x, render.channel[n].y>> = c }

\* C24: in a streaming render that is never cancelled (at least one pixel,
\* one sample per pixel and one thread) all worker tasks eventually finish,
\* and by then exactly width * height Pixel messages have been sent, exactly
\* one for each coordinate (i mod width, i div width) of the image; before
\* that no coordinate has more than one message.
C24_OneMessagePerPixel ==
    /\ [](rpc = "streaming" =>
            /\ \A n \in 1..Len(render.channel) :
                  /\ render.channel[n].kind = "Pixel"
                  /\ <<render.channel[n].x, render.channel[n].y>> \in Coordinates
            /\ \A i \in 0..(PixelCount - 1) : Cardinality(MessagesFor(CoordinateOf(i))) <= 1)
    /\ []((rpc = "streaming" /\ ~render.aborted /\ AllDone(render)) =>
            /\ Len(render.channel) = PixelCount
            /\ \A c \in Coordinates : Cardinality(MessagesFor(c)) = 1
            /\ \A i \in 0..(PixelCount - 1) : Cardinality(MessagesFor(CoordinateOf(i))) = 1)
    /\ ((rpc = "streaming") ~> (render.aborted \/ AllDone(render)))

\* the task whose chunk holds linear index i, and the place of i in that chunk
TaskOfPixel(i) ==
    CHOOSE t \in 1..Len(render.chunks) : \E k \in 1..Len(render.chunks[t]) : render.chunks[t][k] = i
PlaceOfPixel(i) ==
    CHOOSE k \in 1..Len(render.chunks[TaskOfPixel(i)]) : render.chunks[TaskOfPixel(i)][k] = i

\* the jitter of sample s of the pixel at a place of its chunk: none for
\* sample 0; the task's generator has given one pair of draws for each of the
\* samples_per_pixel - 1 later samples of every pixel before this one
JitterOfSample(place, s) ==
    IF s = 0 THEN 0
    ELSE JitterAt((place - 1) * (render.options.samples_per_pixel - 1) + (s - 1))

\* the sum of the trace results of samples 0 .. s - 1 of pixel i
RECURSIVE SumOfSamples(_, _)
SumOfSamples(i, s) ==
    IF s = 0 THEN 0
    ELSE SumOfSamples(i, s - 1)
         + TraceColor(i % render.options.image_width, i \div render.options.image_width,
                      JitterOfSample(PlaceOfPixel(i), s - 1))

\* C25: every Pixel message carries the sum of exactly samples_per_pixel
\* trace results divided by samples_per_pixel, sample 0 taken through the
\* pixel center and only the later samples jittered; a task sends a pixel
\* only after all its samples, and a pixel it left on cancellation is never
\* sent.
C25_FullSampleCount ==
    rpc = "streaming" =>
        /\ \A n \in 1..Len(render.channel) :
              LET msg == render.channel[n]
                  i == msg.y * render.options.image_width + msg.x
              IN /\ msg.kind = "Pixel"
                 /\ msg.color.d = render.options.samples_per_pixel
                 /\ msg.color.n = SumOfSamples(i, render.options.samples_per_pixel)
        /\ \A t \in TaskIds :
              /\ render.tasks[t].pc = "send" =>
                    render.tasks[t].i = render.options.samples_per_pixel
              /\ (render.tasks[t].broke /\ render.tasks[t].k < Len(render.chunks[t])) =>
                    /\ render.tasks[t].i < render.options.samples_per_pixel
                    /\ MessagesFor(CoordinateOf(render.chunks[t][render.tasks[t].k + 1])) = {}

\* a task has sent its first pixel with a jittered second sample and was
\* cancelled on its second pixel after one sample: no message for that pixel
C25_Witness ==
    /\ rpc = "streaming"
    /\ render.options.samples_per_pixel >= 2
    /\ \E t \in TaskIds :
        /\ render.tasks[t].broke /\ render.tasks[t].pc = "done"
        /\ render.tasks[t].k = 1 /\ render.tasks[t].i = 1
        /\ Len(render.chunks[t]) >= 2
        /\ MessagesFor(CoordinateOf(render.chunks[t][1])) # {}
        /\ MessagesFor(CoordinateOf(render.chunks[t][2])) = {}

(***************************************************************************)
(* CuletViewer::update: the drain loop                                     *)
(***************************************************************************)
\* the messages waiting on the channel the viewer holds
Queued == Len(renders[Current].channel) - renders[Current].taken

\* the step takes a message from the channel the viewer holds
TakesMessage ==
    /\ Len(renders') = Len(renders)
    /\ renders'[Current].taken # renders[Current].taken

\* C26: in one call of update the consumer takes at most a fixed bound of
\* messages from the channel, one at a time from its head and without
\* waiting; it leaves the loop only when the channel is empty or the bound
\* is reached; what it does not take stays queued; and with update called
\* again and again every message sent on the channel the viewer holds is
\* taken in the end, unless a new render replaces the channel first: the
\* messages being taken in the order they were sent, none waits for ever
\* exactly when the channel the viewer holds is empty again and again.
C26_BoundedDrain ==
    /\ [](vpc \in {"ui", "drain"} /\ viewer.n <= DrainBound)
    /\ [][TakesMessage =>
            /\ vpc = "drain" /\ viewer.n < DrainBound
            /\ viewer'.n = viewer.n + 1
            /\ renders'[Current].taken = renders[Current].taken + 1]_vars
    /\ [][(vpc = "drain" /\ vpc' = "ui") =>
            /\ viewer.n = DrainBound \/ Queued = 0
            /\ renders' = renders]_vars
    /\ [][(vpc = "drain" /\ Queued > 0 /\ viewer.n < DrainBound) => vpc' = "drain"]_vars
    /\ [][Len(renders') = Len(renders) =>
            SubSeq(renders'[Current].channel, 1, Len(renders[Current].channel))
                = renders[Current].channel]_vars
    /\ []<>(Queued = 0)

\* two calls of update have each taken one message of a 2 x 2 render and
\* left the others, two by now, on the channel
C26_Witness ==
    /\ vpc = "ui"
    /\ viewer.n = DrainBound
    /\ Len(renders[Current].channel) = 4
    /\ renders[Current].taken = 2
    /\ Queued = 2

(***************************************************************************)
(* CuletViewer: renders that were replaced                                 *)
(***************************************************************************)
\* the render started last
Latest == Len(renders)

\* the step writes a message into the frame buffer or takes one from a channel
Consumes ==
    /\ Len(renders') = Len(renders)
    /\ \/ viewer'.frame_buffer # viewer.frame_buffer
       \/ \E r \in 1..Len(renders) : renders'[r].taken # renders[r].taken

\* C27: after the viewer has started a new render, no Pixel message of a
\* worker of an earlier render is written into the frame buffer: in every
\* interleaving of old workers, new workers and calls of update, each
\* message the consumer reads is the next one of the render started last,
\* sent by a worker of that render, and the messages left on the channel of
\* an earlier render are never read.
C27_OnlyLatestRenderConsumed ==
    /\ [][Consumes =>
            LET r == Latest
                at == renders[r].taken + 1
            IN /\ at <= Len(renders[r].channel)
               /\ renders'[r].taken = at
               /\ \A q \in 1..(r - 1) : renders'[q].taken = renders[q].taken
               /\ LET msg == renders[r].channel[at]
                  IN viewer'.frame_buffer =
                        [viewer.frame_buffer EXCEPT
                            !.pixels[<<msg.x, msg.y>>] = Convert(msg.color)]]_vars
    /\ [][Len(renders') > Len(renders) =>
            /\ \A q \in 1..Len(renders) : renders'[q].taken = renders[q].taken
            /\ renders'[Len(renders')].channel = <<>>
            /\ \A xy \in DOMAIN viewer'.frame_buffer.pixels : viewer'.frame_buffer.pixels[xy] = 0]_vars
    /\ [][\A r \in 1..Len(renders) :
            renders'[r].channel # renders[r].channel =>
                \E t \in 1..Len(renders[r].tasks) :
                    /\ renders[r].tasks[t].pc = "send"
                    /\ renders'[r].channel = Append(renders[r].channel, PixelMsg(renders[r], t))]_vars
    /\ [](\A r \in 1..(Latest - 1) :
            /\ ~renders[r].connected
            /\ renders[r].taken <= Len(renders[r].channel))

\* the first render was replaced with its message still on the channel; the
\* viewer has since written a message of the render started last, while the
\* old message is still where it was
C27_Witness ==
    /\ Latest >= 2
    /\ \E r \in 1..(Latest - 1) : Len(renders[r].channel) > renders[r].taken
    /\ renders[Latest].taken >= 1
    /\ \E xy \in DOMAIN viewer.frame_buffer.pixels : viewer.frame_buffer.pixels[xy] # 0

\* the started renders whose cancellation flag is not set
Uncancelled == { r \in 1..Len(renders) : ~renders[r].aborted }

\* C28: in the viewer at most one started render has an unset cancellation
\* flag at any moment, the one started last: when a new render is started
\* the flag of the one before it is already set; a flag that is set is
\* never cleared; and setting the flag of one render changes the flag of no
\* other.
C28_OneLiveRender ==
    /\ [](Cardinality(Uncancelled) <= 1 /\ Uncancelled \subseteq {Latest})
    /\ [][\A r \in 1..Len(renders) : renders[r].aborted => renders'[r].aborted]_vars
    /\ [][Len(renders') > Len(renders) =>
            /\ Len(renders') = Len(renders) + 1
            /\ renders'[Len(renders)].aborted
            /\ ~renders'[Len(renders')].aborted]_vars
    /\ [][\A r \in 1..Len(renders) :
            (~renders[r].aborted /\ renders'[r].aborted) =>
                \A q \in (1..Len(renders)) \ {r} : renders'[q].aborted = renders[q].aborted]_vars

\* three renders have been started; workers of the render before the last
\* and of the last one are at work at the same moment, the first under a
\* set flag and the second under an unset one
C28_Witness ==
    /\ Latest = 3
    /\ Uncancelled = {3}
    /\ renders[1].aborted /\ renders[2].aborted
    /\ \E t \in 1..Len(renders[2].tasks) : renders[2].tasks[t].pc \in {"check", "trace", "send"}
    /\ \E t \in 1..Len(renders[3].tasks) : renders[3].tasks[t].pc \in {"check", "trace", "send"}

\* C29: whenever the consumer writes a Pixel message into the frame buffer,
\* the message's x is less than the frame buffer's width and its y less than
\* its height, after any sequence of image-size changes, re-renders and calls
\* of update: the frame buffer always has the dimensions of the render whose
\* channel is drained, and every message on that channel lies inside it.
C29_MessagesInsideFrameBuffer ==
    /\ vpc # "out_of_bounds"
    /\ vpc \in {"ui", "drain"} =>
        LET fb == viewer.frame_buffer
            r == renders[Latest]
        IN /\ fb.width = r.options.image_width
           /\ fb.height = r.options.image_height
           /\ fb.width = viewer.render_options.image_width
           /\ fb.height = viewer.render_options.image_height
           /\ DOMAIN fb.pixels = (0..(fb.width - 1)) \X (0..(fb.height - 1))
           /\ \A n \in 1..Len(r.channel) :
                 /\ r.channel[n].kind = "Pixel"
                 /\ r.channel[n].x < fb.width
                 /\ r.channel[n].y < fb.height

\* the image was resized from 1 to 2 while the message of the 1 x 1 render
\* was on its channel: the consumer has written the message for pixel (1, 1)
\* of the 2 x 2 render into a 2 x 2 frame buffer
C29_Witness ==
    /\ Latest = 2
    /\ renders[1].options.image_width = 1
    /\ Len(renders[1].channel) = 1 /\ renders[1].taken = 0
    /\ viewer.frame_buffer.width = 2 /\ viewer.frame_buffer.height = 2
    /\ \E n \in 1..renders[2].taken :
          /\ renders[2].channel[n].x = 1 /\ renders[2].channel[n].y = 1
          /\ viewer.frame_buffer.pixels[<<1, 1>>] = Convert(renders[2].channel[n].color)

(***************************************************************************)
(* render_streaming with one sample per pixel                              *)
(***************************************************************************)
\* the color of pixel (x, y) as the configuration alone gives it: the trace
\* of the ray through the center of the pixel, over one sample
ColorOfPixel(x, y) == [n |-> TraceColor(x, y, 0), d |-> 1]

\* the image a consumer assembles from the messages in the order they were
\* sent: for each coordinate the color of the last message for it
Assembled ==
    [c \in Coordinates |->
        LET at == MessagesFor(c)
        IN render.channel[CHOOSE n \in at : \A q \in at : q <= n].color]

\* C30: with samples_per_pixel = 1 the color sent for each pixel (x, y) by a
\* render that is not cancelled is the same function of the configuration
\* for every order of the shuffle, every number of threads and every
\* interleaving of the tasks, and so is the image assembled from the
\* messages, whatever order they arrive in.
C30_ColorIndependentOfSchedule ==
    (rpc = "streaming" /\ render.options.samples_per_pixel = 1) =>
        /\ \A n \in 1..Len(render.channel) :
              render.channel[n].color = ColorOfPixel(render.channel[n].x, render.channel[n].y)
        /\ (AllDone(render) /\ ~render.aborted) =>
              /\ \A c \in Coordinates : MessagesFor(c) # {}
              /\ Assembled = [c \in Coordinates |-> ColorOfPixel(c[1], c[2])]

\* a 2 x 2 image of one sample per pixel rendered to its end by two threads,
\* the second row sent before the first, with pixels of different colors
C30_Witness ==
    /\ rpc = "streaming" /\ render.options.samples_per_pixel = 1
    /\ render.options.threads = 2
    /\ render.options.image_width = 2 /\ render.options.image_height = 2
    /\ AllDone(render) /\ ~render.aborted
    /\ <<render.channel[1].x, render.channel[1].y>> = <<0, 1>>
    /\ <<render.channel[2].x, render.channel[2].y>> = <<1, 1>>
    /\ render.channel[1].color # render.channel[2].color
    /\ render.chunks[1] = <<3, 0>>

====
